---- MODULE Spec2Model ----
(***************************************************************************)
(* Model of sqldatetime's interval.rs: the year-month interval IntervalYM  *)
(* (an i32 count of months) and the day-time interval IntervalDT (an i64   *)
(* count of microseconds), their checked constructors, negation, checked   *)
(* addition and subtraction, f64 scaling, subtraction of a time of day,    *)
(* and the conversions to and from the NaiveDateTime record.               *)
(*                                                                         *)
(* TLC's integers are 32 bits wide, and the program's values are not: an   *)
(* i64 count reaches 8,640,000,000,000,000,000 and a u32 argument reaches  *)
(* 4,294,967,295.  Every program integer is therefore an exact integer Z,  *)
(* a sign and a magnitude held as limbs of four decimal digits, least      *)
(* significant first, and each machine operation states its own width.     *)
(***************************************************************************)
EXTENDS Integers, Sequences, FiniteSets, TLC

(***************************************************************************)
(* Exact integers.                                                         *)
(***************************************************************************)
Base == 10^4

RECURSIVE Strip(_)
Strip(m) ==
    IF m = <<>> THEN <<>>
    ELSE IF m[Len(m)] = 0 THEN Strip(SubSeq(m, 1, Len(m) - 1))
    ELSE m

RECURSIVE MagOfNat(_)
MagOfNat(n) ==
    IF n = 0 THEN <<>> ELSE <<n % Base>> \o MagOfNat(n \div Base)

RECURSIVE MagCmpFrom(_, _, _)
MagCmpFrom(a, b, i) ==
    IF i = 0 THEN 0
    ELSE IF a[i] < b[i] THEN -1
    ELSE IF a[i] > b[i] THEN 1
    ELSE MagCmpFrom(a, b, i - 1)

MagCmp(a, b) ==
    IF Len(a) < Len(b) THEN -1
    ELSE IF Len(a) > Len(b) THEN 1
    ELSE MagCmpFrom(a, b, Len(a))

\* a + b + c for a carry c, limb by limb
RECURSIVE MagAddC(_, _, _)
MagAddC(a, b, c) ==
    IF a = <<>> /\ b = <<>> THEN MagOfNat(c)
    ELSE IF a = <<>> THEN MagAddC(b, a, c)
    ELSE IF b = <<>>
    THEN <<(Head(a) + c) % Base>> \o MagAddC(Tail(a), b, (Head(a) + c) \div Base)
    ELSE <<(Head(a) + Head(b) + c) % Base>>
         \o MagAddC(Tail(a), Tail(b), (Head(a) + Head(b) + c) \div Base)

MagAdd(a, b) == MagAddC(a, b, 0)

\* a - b - w for a borrow w, limb by limb
RECURSIVE MagSubB(_, _, _)
MagSubB(a, b, w) ==
    IF a = <<>> THEN <<>>
    ELSE IF b = <<>>
    THEN <<(Head(a) - w + Base) % Base>>
         \o MagSubB(Tail(a), b, IF Head(a) - w < 0 THEN 1 ELSE 0)
    ELSE <<(Head(a) - Head(b) - w + Base) % Base>>
         \o MagSubB(Tail(a), Tail(b), IF Head(a) - Head(b) - w < 0 THEN 1 ELSE 0)

\* a - b for magnitudes with a >= b
MagSub(a, b) == Strip(MagSubB(a, b, 0))

\* a * m + c for one limb m, 0 <= m < Base, and a carry c
RECURSIVE MagMulC(_, _, _)
MagMulC(a, m, c) ==
    IF a = <<>> THEN MagOfNat(c)
    ELSE <<(Head(a) * m + c) % Base>>
         \o MagMulC(Tail(a), m, (Head(a) * m + c) \div Base)

MagMulLimb(a, m) == Strip(MagMulC(a, m, 0))

\* a * (b[i] + Base * (b[i+1] + ...)), given acc = a * (b[i+1] + ...)
RECURSIVE MagMulFrom(_, _, _, _)
MagMulFrom(a, b, i, acc) ==
    IF i = 0 THEN acc
    ELSE IF acc = <<>> THEN MagMulFrom(a, b, i - 1, MagMulLimb(a, b[i]))
    ELSE MagMulFrom(a, b, i - 1, MagAdd(MagMulLimb(a, b[i]), <<0>> \o acc))

\* schoolbook product, from the most significant limb of b down
MagMul(a, b) == MagMulFrom(a, b, Len(b), <<>>)

\* the greatest element of a set of numbers
Max(S) == CHOOSE x \in S : \A y \in S : y <= x

\* one decimal digit of a quotient digit: acc + unit * d for the greatest d in
\* 0..9 with (acc + unit * d) * b <= cur, given acc * b <= cur
QStage(cur, b, acc, unit) ==
    acc + unit * Max({d \in 0..9 :
                        MagCmp(MagMulLimb(b, acc + unit * d), cur) <= 0})

\* the greatest q in 0 .. Base-1 with q * b <= cur
QDigit(cur, b) ==
    QStage(cur, b, QStage(cur, b, QStage(cur, b, QStage(cur, b, 0, 1000), 100), 10), 1)

\* long division of a by b # 0 from the most significant limb down: q holds
\* the quotient digits of the limbs above i, r is what they left over
RECURSIVE MagDivFrom(_, _, _, _, _)
MagDivDigit(a, b, i, q, cur, d) ==
    MagDivFrom(a, b, i - 1, <<d>> \o q, MagSub(cur, MagMulLimb(b, d)))

MagDivCur(a, b, i, q, cur) ==
    IF MagCmp(cur, b) < 0 THEN MagDivFrom(a, b, i - 1, <<0>> \o q, cur)
    ELSE MagDivDigit(a, b, i, q, cur, QDigit(cur, b))

MagDivFrom(a, b, i, q, r) ==
    IF i = 0 THEN [q |-> q, r |-> r]
    ELSE MagDivCur(a, b, i, q, Strip(<<a[i]>> \o r))

\* the quotient has no digit above limb Len(a) - Len(b) + 1 of a
MagDivRem(a, b) ==
    IF Len(a) < Len(b) THEN [q |-> <<>>, r |-> a]
    ELSE MagDivFrom(a, b, Len(a) - Len(b) + 1, <<>>,
                    Strip(SubSeq(a, Len(a) - Len(b) + 2, Len(a))))

MagDiv(a, b) == Strip(MagDivRem(a, b).q)
MagMod(a, b) == MagDivRem(a, b).r

\* an exact integer: its sign and its magnitude; zero is never negative
Mk(neg, mag) == [neg |-> neg /\ mag # <<>>, mag |-> mag]

\* the exact integer of a TLC integer
Z(n) == Mk(n < 0, MagOfNat(IF n < 0 THEN 0 - n ELSE n))

ZNeg(a) == Mk(~a.neg, a.mag)
ZAbs(a) == Mk(FALSE, a.mag)

ZAdd(a, b) ==
    IF a.neg = b.neg THEN Mk(a.neg, MagAdd(a.mag, b.mag))
    ELSE IF MagCmp(a.mag, b.mag) >= 0 THEN Mk(a.neg, MagSub(a.mag, b.mag))
    ELSE Mk(b.neg, MagSub(b.mag, a.mag))

ZSub(a, b) == ZAdd(a, ZNeg(b))

ZCmp(a, b) ==
    IF a.neg # b.neg THEN (IF a.neg THEN -1 ELSE 1)
    ELSE IF a.neg THEN MagCmp(b.mag, a.mag)
    ELSE MagCmp(a.mag, b.mag)

ZLt(a, b) == ZCmp(a, b) < 0
ZLe(a, b) == ZCmp(a, b) <= 0
ZGt(a, b) == ZCmp(a, b) > 0
ZGe(a, b) == ZCmp(a, b) >= 0
ZIsZero(a) == a.mag = <<>>

ZMul(a, b) == Mk(a.neg # b.neg, MagMul(a.mag, b.mag))

\* a / b and a % b truncating toward zero, as Rust's / and % on integers (b # 0)
ZDiv(a, b) == Mk(a.neg # b.neg, MagDiv(a.mag, b.mag))
ZRem(a, b) == Mk(a.neg, MagMod(a.mag, b.mag))

\* a mod m with the result in 0 .. m-1 (m > 0)
ZModOf(r, m) == IF r.neg THEN ZAdd(r, m) ELSE r
ZMod(a, m) == ZModOf(ZRem(a, m), m)

\* 2^k, by factors of 2^30 so that the recursion stays shallow
RECURSIVE ZPow2(_)
ZPow2(k) == IF k <= 30 THEN Z(2^k) ELSE ZMul(Z(2^30), ZPow2(k - 30))

\* the powers of two the f64 model needs, computed once
Pow2Tab == [k \in 0..140 |-> ZPow2(k)]

(***************************************************************************)
(* Machine integers.  A value of type i32, u32 or i64 is an exact integer  *)
(* within the type's range; a cast or a wrapping operation reduces modulo  *)
(* 2^32 or 2^64.                                                           *)
(***************************************************************************)
I32_MAX == ZSub(Pow2Tab[31], Z(1))
I32_MIN == ZNeg(Pow2Tab[31])
U32_MAX == ZSub(Pow2Tab[32], Z(1))
I64_MAX == ZSub(Pow2Tab[63], Z(1))
I64_MIN == ZNeg(Pow2Tab[63])

InI32(z) == ZGe(z, I32_MIN) /\ ZLe(z, I32_MAX)
InU32(z) == ZGe(z, Z(0)) /\ ZLe(z, U32_MAX)
InI64(z) == ZGe(z, I64_MIN) /\ ZLe(z, I64_MAX)

\* the value a two's-complement type of the given width keeps of z
WrapU32(z) == ZMod(z, Pow2Tab[32])
WrapI32(z) == ZSub(ZMod(ZAdd(z, Pow2Tab[31]), Pow2Tab[32]), Pow2Tab[31])
WrapI64(z) == ZSub(ZMod(ZAdd(z, Pow2Tab[63]), Pow2Tab[64]), Pow2Tab[63])

\* Option<i32> / Option<i64>
Some(z) == [some |-> TRUE, v |-> z]
None == [some |-> FALSE, v |-> Z(0)]

\* i32::checked_add and i64::checked_add
CheckedI32(s) == IF InI32(s) THEN Some(s) ELSE None
CheckedI64(s) == IF InI64(s) THEN Some(s) ELSE None
checked_add_i32(a, b) == CheckedI32(ZAdd(a, b))
checked_add_i64(a, b) == CheckedI64(ZAdd(a, b))

(***************************************************************************)
(* Unchecked arithmetic (+, -, * and unary - on machine integers) panics   *)
(* on overflow in a build with overflow checks and wraps in one without.   *)
(* An unchecked computation yields the wrapped value and whether it        *)
(* overflowed; the action that runs it then takes either outcome.          *)
(***************************************************************************)
Raw(z, o) == [v |-> z, ovf |-> o]

(***************************************************************************)
(* Constants: crate::common and interval.rs.                               *)
(***************************************************************************)
MONTHS_PER_YEAR == Z(12)
HOURS_PER_DAY == Z(24)
MINUTES_PER_HOUR == Z(60)
SECONDS_PER_MINUTE == Z(60)
USECONDS_MAX == Z(999999)
USECONDS_PER_SECOND == Z(1000000)
USECONDS_PER_MINUTE == ZMul(SECONDS_PER_MINUTE, USECONDS_PER_SECOND)
USECONDS_PER_HOUR == ZMul(MINUTES_PER_HOUR, USECONDS_PER_MINUTE)
USECONDS_PER_DAY == ZMul(HOURS_PER_DAY, USECONDS_PER_HOUR)

INTERVAL_MAX_YEAR == Z(178000000)
INTERVAL_MAX_DAY == Z(100000000)
INTERVAL_MAX_MONTH == ZMul(INTERVAL_MAX_YEAR, MONTHS_PER_YEAR)
INTERVAL_MAX_USECONDS == ZMul(INTERVAL_MAX_DAY, USECONDS_PER_DAY)

(***************************************************************************)
(* Result<T>: Ok(v) or Err(e).  ovf tells whether an unchecked machine     *)
(* operation overflowed on the way to the value.                           *)
(***************************************************************************)
Ok(z) == [ok |-> TRUE, v |-> z, err |-> "none", ovf |-> FALSE]
Err(e) == [ok |-> FALSE, v |-> Z(0), err |-> e, ovf |-> FALSE]
OkRaw(r) == [ok |-> TRUE, v |-> r.v, err |-> "none", ovf |-> r.ovf]
WithOvf(res, o) == [res EXCEPT !.ovf = @ \/ o]

Panic == [ok |-> FALSE, v |-> Z(0), err |-> "panic", ovf |-> TRUE]

\* the outcomes the build can produce for a computed result
Outcomes(res) == IF res.ovf THEN {res, Panic} ELSE {res}

(***************************************************************************)
(* f64.  A finite double is the exact dyadic rational it denotes,          *)
(* (-1)^neg * num / den with den a power of two; -0.0 is the zero with     *)
(* neg.  Every operation computes the exact rational result and rounds it  *)
(* to 53 significant bits, ties to even, as IEEE 754 does.  Two doubles    *)
(* far outside the integer ranges are kept as symbols: "max", f64::MAX,    *)
(* and "lsub", the least positive double 2^-1074; "tiny" is a result that  *)
(* is not zero and is below 2^-1000 in magnitude.  All other finite        *)
(* values of the model stay between 2^-88 and 2^140 in magnitude, where    *)
(* no rounding overflows and none is subnormal.                            *)
(***************************************************************************)
F64(k, neg, num, den) == [k |-> k, neg |-> neg, num |-> num, den |-> den]
NaN == F64("nan", FALSE, Z(0), Z(1))
Inf(neg) == F64("inf", neg, Z(0), Z(1))
Fin(neg, num, den) == F64("fin", neg, num, den)
F64Max(neg) == F64("max", neg, Z(0), Z(1))
F64LeastSub(neg) == F64("lsub", neg, Z(0), Z(1))
F64Tiny(neg) == F64("tiny", neg, Z(0), Z(1))

is_infinite(f) == f.k = "inf"
is_nan(f) == f.k = "nan"
\* f == 0.0: true of 0.0 and of -0.0
F64IsZero(f) == f.k = "fin" /\ ZIsZero(f.num)

\* the least b in lo..hi with n < 2^b: the bit length of n >= 0
RECURSIVE BitLenIn(_, _, _)
BitLenIn(n, lo, hi) ==
    IF lo = hi THEN lo
    ELSE LET mid == (lo + hi) \div 2
         IN  IF ZLt(n, Pow2Tab[mid]) THEN BitLenIn(n, lo, mid)
             ELSE BitLenIn(n, mid + 1, hi)

BitLen(n) == BitLenIn(n, 0, 140)

\* e with 2^e <= n/d < 2^(e+1), for n > 0 and d > 0; e0 is e or e + 1
FloorLog2From(n, d, e0) ==
    IF (IF e0 >= 0 THEN ZGe(n, ZMul(d, Pow2Tab[e0]))
        ELSE ZGe(ZMul(n, Pow2Tab[0 - e0]), d))
    THEN e0 ELSE e0 - 1

FloorLog2(n, d) == FloorLog2From(n, d, BitLen(n) - BitLen(d))

\* the double of mantissa m, 2^52 <= m <= 2^53, and exponent e - 52
F64Pack(neg, e, m) ==
    IF e >= 52 THEN Fin(neg, ZMul(m, Pow2Tab[e - 52]), Z(1))
    ELSE Fin(neg, m, Pow2Tab[52 - e])

\* nn/dd = q + r/dd: q, or q + 1 when r/dd is above a half, or is a half
\* and q is odd
F64Nearest(q, r, dd) ==
    IF ZCmp(ZAdd(r, r), dd) > 0
       \/ (ZCmp(ZAdd(r, r), dd) = 0 /\ q.mag # <<>> /\ q.mag[1] % 2 = 1)
    THEN ZAdd(q, Z(1)) ELSE q

\* the mantissa is the quotient itself when the division leaves nothing over
F64Mantissa(neg, e, qr, dd) ==
    IF qr.r = <<>> THEN F64Pack(neg, e, Mk(FALSE, Strip(qr.q)))
    ELSE F64Pack(neg, e, F64Nearest(Mk(FALSE, Strip(qr.q)), Mk(FALSE, qr.r), dd))

\* n/d scaled by 2^(52-e) is nn/dd, in [2^52, 2^53)
F64Scaled(neg, e, nn, dd) == F64Mantissa(neg, e, MagDivRem(nn.mag, dd.mag), dd)

F64RoundAt(neg, n, d, e) ==
    F64Scaled(neg, e, IF e <= 52 THEN ZMul(n, Pow2Tab[52 - e]) ELSE n,
                      IF e <= 52 THEN d ELSE ZMul(d, Pow2Tab[e - 52]))

\* n/d rounded to the nearest double, ties to even (n >= 0, d > 0)
F64Round(neg, n, d) ==
    IF ZIsZero(n) THEN Fin(neg, Z(0), Z(1))
    ELSE F64RoundAt(neg, n, d, FloorLog2(n, d))

\* a literal of the source, n/d in decimal, as the compiler reads it
F64Lit(n, d) == F64Round(n < 0, ZAbs(Z(n)), Z(d))

\* the double of a small integer
F64Int(n) == Fin(n < 0, ZAbs(Z(n)), Z(1))

\* `months as f64`: every i32 is a double
I32ToF64(z) == Fin(z.neg, ZAbs(z), Z(1))

\* `usecs as f64`: rounds once the count needs more than 53 bits
I64ToF64(z) ==
    IF ZLe(ZAbs(z), Pow2Tab[53]) THEN Fin(z.neg, ZAbs(z), Z(1))
    ELSE F64Round(z.neg, ZAbs(z), Z(1))

\* the double nearest to n/d, d a power of two: n/d itself when n has at
\* most 53 bits
F64OfRatio(neg, n, d) ==
    IF ZLe(n, Pow2Tab[53]) THEN Fin(neg, n, d)
    ELSE F64Round(neg, n, d)

\* a * b, for a the double of an integer count
F64Mul(a, b) ==
    CASE a.k = "nan" \/ b.k = "nan" -> NaN
      [] b.k = "inf" -> IF ZIsZero(a.num) THEN NaN ELSE Inf(a.neg # b.neg)
      [] b.k = "max" -> IF ZIsZero(a.num) THEN Fin(a.neg # b.neg, Z(0), Z(1))
                        ELSE IF a.num = Z(1) THEN F64Max(a.neg # b.neg)
                        ELSE Inf(a.neg # b.neg)
      [] b.k = "lsub" -> IF ZIsZero(a.num) THEN Fin(a.neg # b.neg, Z(0), Z(1))
                         ELSE F64Tiny(a.neg # b.neg)
      [] OTHER -> F64OfRatio(a.neg # b.neg, ZMul(a.num, b.num), ZMul(a.den, b.den))

\* a / b, for a the double of an integer count
F64Div(a, b) ==
    CASE a.k = "nan" \/ b.k = "nan" -> NaN
      [] b.k = "inf" -> Fin(a.neg # b.neg, Z(0), Z(1))
      [] b.k = "max" -> IF ZIsZero(a.num) THEN Fin(a.neg # b.neg, Z(0), Z(1))
                        ELSE F64Tiny(a.neg # b.neg)
      [] b.k = "lsub" -> IF ZIsZero(a.num) THEN Fin(a.neg # b.neg, Z(0), Z(1))
                         ELSE Inf(a.neg # b.neg)
      [] OTHER -> IF ZIsZero(b.num)
                  THEN (IF ZIsZero(a.num) THEN NaN ELSE Inf(a.neg # b.neg))
                  ELSE F64Round(a.neg # b.neg, ZMul(a.num, b.den), ZMul(a.den, b.num))

\* the integer part of a finite double, toward zero
F64Trunc(f) == Mk(f.neg, ZDiv(f.num, f.den).mag)

\* an integer clamped to lo .. hi
Saturate(t, lo, hi) == IF ZLt(t, lo) THEN lo ELSE IF ZGt(t, hi) THEN hi ELSE t

\* `f as i32` and `f as i64`: toward zero, saturating, NaN to 0
F64ToInt(f, lo, hi) ==
    CASE f.k = "nan" -> Z(0)
      [] f.k = "tiny" -> Z(0)
      [] f.k = "lsub" -> Z(0)
      [] f.k \in {"inf", "max"} -> IF f.neg THEN lo ELSE hi
      [] OTHER -> Saturate(F64Trunc(f), lo, hi)

F64ToI32(f) == F64ToInt(f, I32_MIN, I32_MAX)
F64ToI64(f) == F64ToInt(f, I64_MIN, I64_MAX)

(***************************************************************************)
(* IntervalYM(i32): a count of months.                                     *)
(***************************************************************************)

\* IntervalYM((year * MONTHS_PER_YEAR + month) as i32), in u32 arithmetic
from_ym_sum(sum) == Raw(WrapI32(WrapU32(sum)), ~InU32(sum))
from_ym_unchecked(year, month) ==
    from_ym_sum(ZAdd(ZMul(year, MONTHS_PER_YEAR), month))

from_months_unchecked(months) == months

\* variant of is_valid_months: the bound compared strictly
is_valid_months_strict(months) ==
    ZLt(months, INTERVAL_MAX_MONTH) /\ ZGt(months, ZNeg(INTERVAL_MAX_MONTH))

is_valid_months(months) ==
    ZLe(months, INTERVAL_MAX_MONTH) /\ ZGe(months, ZNeg(INTERVAL_MAX_MONTH))

\* variant of try_from_ym: the month checked before the range
try_from_ym_month_first(year, month) ==
    IF ZGe(month, MONTHS_PER_YEAR)
    THEN Err("InvalidMonth")
    ELSE IF ZGe(year, INTERVAL_MAX_YEAR) /\ (year # INTERVAL_MAX_YEAR \/ month # Z(0))
    THEN Err("IntervalOutOfRange")
    ELSE OkRaw(from_ym_unchecked(year, month))

try_from_ym(year, month) ==
    IF ZGe(year, INTERVAL_MAX_YEAR) /\ (year # INTERVAL_MAX_YEAR \/ month # Z(0))
    THEN Err("IntervalOutOfRange")
    ELSE IF ZGe(month, MONTHS_PER_YEAR)
    THEN Err("InvalidMonth")
    ELSE OkRaw(from_ym_unchecked(year, month))

try_from_months(months) ==
    IF is_valid_months(months)
    THEN Ok(from_months_unchecked(months))
    ELSE Err("IntervalOutOfRange")

is_valid_ym(year, month) ==
    IF ZGe(year, INTERVAL_MAX_YEAR) /\ (year # INTERVAL_MAX_YEAR \/ month # Z(0))
    THEN FALSE
    ELSE IF ZGe(month, MONTHS_PER_YEAR)
    THEN FALSE
    ELSE TRUE

\* -self.months(), in i32 arithmetic
ym_negate(months) ==
    Raw(from_months_unchecked(WrapI32(ZNeg(months))), ~InI32(ZNeg(months)))

\* (sign, year, mag - year * MONTHS_PER_YEAR), in u32 arithmetic
ym_extract_year(sign, mag, year, ovf) ==
    Raw(<<sign, year, WrapU32(ZSub(mag, ZMul(year, MONTHS_PER_YEAR)))>>, ovf)

\* mag is `-self.0 as u32` or `self.0 as u32`
ym_extract_mag(sign, mag, ovf) ==
    ym_extract_year(sign, mag, ZDiv(mag, MONTHS_PER_YEAR), ovf)

\* variant of ym_extract: the sign taken from `self.0 <= 0`
ym_extract_nonpositive(months) ==
    IF months.neg \/ ZIsZero(months)
    THEN ym_extract_mag("Negative", WrapU32(WrapI32(ZNeg(months))),
                        ~InI32(ZNeg(months)))
    ELSE ym_extract_mag("Positive", WrapU32(months), FALSE)

\* (sign, year, month); `-self.0 as u32` negates in i32 and then casts
ym_extract(months) ==
    IF months.neg
    THEN ym_extract_mag("Negative", WrapU32(WrapI32(ZNeg(months))),
                        ~InI32(ZNeg(months)))
    ELSE ym_extract_mag("Positive", WrapU32(months), FALSE)

ym_add_checked(result) ==
    IF result.some THEN try_from_months(result.v)
    ELSE Err("IntervalOutOfRange")

add_interval_ym(self, interval) ==
    ym_add_checked(checked_add_i32(self, interval))

\* variant of ym_add_negated: self.add_interval_ym(interval)
ym_add_not_negated(self, n) == WithOvf(add_interval_ym(self, ZNeg(n.v)), n.ovf)

\* self.add_interval_ym(-interval)
ym_add_negated(self, n) == WithOvf(add_interval_ym(self, n.v), n.ovf)
sub_interval_ym(self, interval) == ym_add_negated(self, ym_negate(interval))

\* variant of ym_scaled: `result.floor() as i32`
ym_scaled_floor(result) ==
    IF is_infinite(result) THEN Err("NumericOverflow")
    ELSE IF is_nan(result) THEN Err("InvalidNumber")
    ELSE IF result.k = "fin" /\ result.neg /\ ~ZIsZero(ZRem(result.num, result.den))
    THEN try_from_months(ZSub(F64ToI32(result), Z(1)))
    ELSE try_from_months(F64ToI32(result))

\* variant of ym_scaled: without the is_nan test
ym_scaled_no_nan(result) ==
    IF is_infinite(result) THEN Err("NumericOverflow")
    ELSE try_from_months(F64ToI32(result))

\* the checks on `result` that mul_f64 and div_f64 share
ym_scaled(result) ==
    IF is_infinite(result) THEN Err("NumericOverflow")
    ELSE IF is_nan(result) THEN Err("InvalidNumber")
    ELSE try_from_months(F64ToI32(result))

ym_mul_f64(self, number) == ym_scaled(F64Mul(I32ToF64(self), number))

ym_div_f64(self, number) ==
    IF F64IsZero(number) THEN Err("DivideByZero")
    ELSE ym_scaled(F64Div(I32ToF64(self), number))

(***************************************************************************)
(* IntervalDT(i64): a count of microseconds.                               *)
(***************************************************************************)

\* day, hour, minute, sec and usec widened to i64, then i64 arithmetic
from_dhms_us(us) == Raw(WrapI64(us), ~InI64(us))

from_dhms_time(day, time) == from_dhms_us(ZAdd(ZMul(day, USECONDS_PER_DAY), time))

from_dhms_unchecked(day, hour, minute, sec, usec) ==
    from_dhms_time(day, ZAdd(ZAdd(ZAdd(ZMul(hour, USECONDS_PER_HOUR),
                                       ZMul(minute, USECONDS_PER_MINUTE)),
                                  ZMul(sec, USECONDS_PER_SECOND)),
                             usec))

from_usecs_unchecked(usecs) == usecs

\* variant of is_valid_usecs: the bound of i64 instead of the interval's
is_valid_usecs_i64(usecs) == ZLe(usecs, I64_MAX) /\ ZGe(usecs, I64_MIN)

is_valid_usecs(usecs) ==
    ZLe(usecs, INTERVAL_MAX_USECONDS) /\ ZGe(usecs, ZNeg(INTERVAL_MAX_USECONDS))

\* variant of try_from_dhms: the minute checked before the hour
try_from_dhms_minute_first(day, hour, minute, sec, usec) ==
    IF ZGe(day, INTERVAL_MAX_DAY)
       /\ (day # INTERVAL_MAX_DAY \/ hour # Z(0) \/ minute # Z(0)
           \/ sec # Z(0) \/ usec # Z(0))
    THEN Err("IntervalOutOfRange")
    ELSE IF ZGe(minute, MINUTES_PER_HOUR) THEN Err("InvalidMinute")
    ELSE IF ZGe(hour, HOURS_PER_DAY) THEN Err("TimeOutOfRange")
    ELSE IF ZGe(sec, SECONDS_PER_MINUTE) THEN Err("InvalidSecond")
    ELSE IF ZGt(usec, USECONDS_MAX) THEN Err("InvalidFraction")
    ELSE OkRaw(from_dhms_unchecked(day, hour, minute, sec, usec))

try_from_dhms(day, hour, minute, sec, usec) ==
    IF ZGe(day, INTERVAL_MAX_DAY)
       /\ (day # INTERVAL_MAX_DAY \/ hour # Z(0) \/ minute # Z(0)
           \/ sec # Z(0) \/ usec # Z(0))
    THEN Err("IntervalOutOfRange")
    ELSE IF ZGe(hour, HOURS_PER_DAY) THEN Err("TimeOutOfRange")
    ELSE IF ZGe(minute, MINUTES_PER_HOUR) THEN Err("InvalidMinute")
    ELSE IF ZGe(sec, SECONDS_PER_MINUTE) THEN Err("InvalidSecond")
    ELSE IF ZGt(usec, USECONDS_MAX) THEN Err("InvalidFraction")
    ELSE OkRaw(from_dhms_unchecked(day, hour, minute, sec, usec))

try_from_usecs(usecs) ==
    IF is_valid_usecs(usecs)
    THEN Ok(from_usecs_unchecked(usecs))
    ELSE Err("IntervalOutOfRange")

\* variant of dt_negate: -(self.usecs().abs())
dt_negate_abs(usecs) ==
    Raw(from_usecs_unchecked(WrapI64(ZNeg(ZAbs(usecs)))), FALSE)

\* -self.usecs(), in i64 arithmetic
dt_negate(usecs) ==
    Raw(from_usecs_unchecked(WrapI64(ZNeg(usecs))), ~InI64(ZNeg(usecs)))

\* variant of dt_add_checked: the sum returned without the bound's check
dt_add_unbounded(result) ==
    IF result.some THEN Ok(from_usecs_unchecked(result.v))
    ELSE Err("IntervalOutOfRange")

dt_add_checked(result) ==
    IF result.some THEN try_from_usecs(result.v)
    ELSE Err("IntervalOutOfRange")

add_interval_dt(self, interval) ==
    dt_add_checked(checked_add_i64(self, interval))

\* self.add_interval_dt(-interval)
dt_add_negated(self, n) == WithOvf(add_interval_dt(self, n.v), n.ovf)
sub_interval_dt(self, interval) == dt_add_negated(self, dt_negate(interval))

\* the checks on `result` that mul_f64 and div_f64 share
dt_scaled(result) ==
    IF is_infinite(result) THEN Err("NumericOverflow")
    ELSE IF is_nan(result) THEN Err("InvalidNumber")
    ELSE try_from_usecs(F64ToI64(result))

dt_mul_f64(self, number) == dt_scaled(F64Mul(I64ToF64(self), number))

\* variant of dt_div_f64: without the test of a zero divisor
dt_div_f64_unguarded(self, number) == dt_scaled(F64Div(I64ToF64(self), number))

dt_div_f64(self, number) ==
    IF F64IsZero(number) THEN Err("DivideByZero")
    ELSE dt_scaled(F64Div(I64ToF64(self), number))

\* variant of sub_time: self.usecs() + time.usecs()
sub_time_added(self, time) ==
    WithOvf(try_from_usecs(WrapI64(ZAdd(self, time))), ~InI64(ZAdd(self, time)))

\* self.usecs() - time.usecs(), in i64 arithmetic
sub_time_diff(d) == WithOvf(try_from_usecs(WrapI64(d)), ~InI64(d))
sub_time(self, time) == sub_time_diff(ZSub(self, time))

\* impl From<Time> for IntervalDT
from_time(time) == from_usecs_unchecked(time)

\* impl PartialEq<Time> for IntervalDT: self.usecs() == other.usecs()
dt_eq_time(self, other) == ZCmp(self, other) = 0

\* i64::cmp
Ordering(c) == IF c < 0 THEN "Less" ELSE IF c = 0 THEN "Equal" ELSE "Greater"

\* variant of dt_partial_cmp_time: other.usecs().cmp(&self.usecs())
dt_partial_cmp_time_reversed(self, other) == Some(Ordering(ZCmp(other, self)))

\* impl PartialOrd<Time> for IntervalDT: Some(self.usecs().cmp(&other.usecs()))
dt_partial_cmp_time(self, other) == Some(Ordering(ZCmp(self, other)))

\* sec = time / USECONDS_PER_SECOND; usec = time - sec * USECONDS_PER_SECOND
dt_extract_sec(sign, day, hour, minute, time, sec, ovf) ==
    Raw(<<sign, WrapU32(day), WrapU32(hour), WrapU32(minute), WrapU32(sec),
          WrapU32(ZSub(time, ZMul(sec, USECONDS_PER_SECOND)))>>, ovf)

dt_extract_usec(sign, day, hour, minute, time, ovf) ==
    dt_extract_sec(sign, day, hour, minute, time,
                   ZDiv(time, USECONDS_PER_SECOND), ovf)

\* time -= minute * USECONDS_PER_MINUTE
dt_extract_minute(sign, day, hour, time, minute, ovf) ==
    dt_extract_usec(sign, day, hour, minute,
                    ZSub(time, ZMul(minute, USECONDS_PER_MINUTE)), ovf)

dt_extract_min(sign, day, hour, time, ovf) ==
    dt_extract_minute(sign, day, hour, time,
                      ZDiv(time, USECONDS_PER_MINUTE), ovf)

\* variant of dt_extract_hour: the hours are not taken off time
dt_extract_hour_kept(sign, day, time, hour, ovf) ==
    dt_extract_min(sign, day, hour, time, ovf)

\* time -= hour * USECONDS_PER_HOUR
dt_extract_hour(sign, day, time, hour, ovf) ==
    dt_extract_min(sign, day, hour,
                   ZSub(time, ZMul(hour, USECONDS_PER_HOUR)), ovf)

dt_extract_time(sign, day, time, ovf) ==
    dt_extract_hour(sign, day, time, ZDiv(time, USECONDS_PER_HOUR), ovf)

\* day = mag / USECONDS_PER_DAY; time = mag - day * USECONDS_PER_DAY
dt_extract_day(sign, mag, day, ovf) ==
    dt_extract_time(sign, day, ZSub(mag, ZMul(day, USECONDS_PER_DAY)), ovf)

\* mag is -self.0 or self.0
dt_extract_mag(sign, mag, ovf) ==
    dt_extract_day(sign, mag, ZDiv(mag, USECONDS_PER_DAY), ovf)

\* (sign, day, hour, minute, sec, usec), in i64 arithmetic, each cast to u32
dt_extract(usecs) ==
    IF usecs.neg
    THEN dt_extract_mag("Negative", WrapI64(ZNeg(usecs)), ~InI64(ZNeg(usecs)))
    ELSE dt_extract_mag("Positive", usecs, FALSE)

(***************************************************************************)
(* NaiveDateTime, the record the formatter and the parser exchange with    *)
(* the interval types: year is an i32, the other fields are u32.           *)
(***************************************************************************)
\* variant of NaiveDateTime_new: the first month, as of a date
NaiveDateTime_first_month ==
    [year |-> Z(0), month |-> Z(1), day |-> Z(0), hour |-> Z(0),
     minute |-> Z(0), sec |-> Z(0), usec |-> Z(0), negative |-> FALSE]

NaiveDateTime_new ==
    [year |-> Z(0), month |-> Z(0), day |-> Z(0), hour |-> Z(0),
     minute |-> Z(0), sec |-> Z(0), usec |-> Z(0), negative |-> FALSE]

\* variant of naive_of_ym: the record of the magnitude, negative left false
naive_of_ym_unsigned(e) ==
    Raw([NaiveDateTime_new EXCEPT !.year = WrapI32(e.v[2]), !.month = e.v[3]],
        e.ovf)

\* NaiveDateTime { year: year as i32, month, negative, ..NaiveDateTime::new() }
naive_of_ym(e) ==
    Raw([NaiveDateTime_new EXCEPT !.year = WrapI32(e.v[2]),
                                  !.month = e.v[3],
                                  !.negative = (e.v[1] = "Negative")],
        e.ovf)

\* impl From<IntervalYM> for NaiveDateTime
naive_from_ym(interval) == naive_of_ym(ym_extract(interval))

\* Ok(-r?): the error of r, or the negation of its value
ym_negate_ok(r, n, ovf) ==
    IF r.ok THEN WithOvf(OkRaw(n), r.ovf \/ ovf) ELSE WithOvf(r, ovf)

ym_negated(r, ovf) == ym_negate_ok(r, ym_negate(r.v), ovf)

\* impl TryFrom<NaiveDateTime> for IntervalYM; `-dt.year as u32` is (-dt.year) as u32
ym_try_from_naive(dt) ==
    IF dt.negative
    THEN ym_negated(try_from_ym(WrapU32(WrapI32(ZNeg(dt.year))), dt.month),
                    ~InI32(ZNeg(dt.year)))
    ELSE try_from_ym(WrapU32(dt.year), dt.month)

\* variant of naive_of_dt: the record of the magnitude, negative left false
naive_of_dt_unsigned(e) ==
    Raw([NaiveDateTime_new EXCEPT !.day = e.v[2], !.hour = e.v[3],
                                  !.minute = e.v[4], !.sec = e.v[5],
                                  !.usec = e.v[6]],
        e.ovf)

\* NaiveDateTime { day, hour, minute, sec, usec, negative, ..NaiveDateTime::new() }
naive_of_dt(e) ==
    Raw([NaiveDateTime_new EXCEPT !.day = e.v[2], !.hour = e.v[3],
                                  !.minute = e.v[4], !.sec = e.v[5],
                                  !.usec = e.v[6],
                                  !.negative = (e.v[1] = "Negative")],
        e.ovf)

\* impl From<IntervalDT> for NaiveDateTime
naive_from_dt(interval) == naive_of_dt(dt_extract(interval))

\* Ok(r?.negate()): the error of r, or the negation of its value
dt_negate_ok(r, n) == IF r.ok THEN WithOvf(OkRaw(n), r.ovf) ELSE r

dt_negated(r) == dt_negate_ok(r, dt_negate(r.v))

\* impl TryFrom<NaiveDateTime> for IntervalDT
dt_try_from_naive(dt) ==
    IF dt.negative
    THEN dt_negated(try_from_dhms(dt.day, dt.hour, dt.minute, dt.sec, dt.usec))
    ELSE try_from_dhms(dt.day, dt.hour, dt.minute, dt.sec, dt.usec)

(***************************************************************************)
(* impl DateTime: the field accessors of both types.                       *)
(***************************************************************************)
\* Some(self.months() / MONTHS_PER_YEAR as i32)
ym_year(months) == Some(ZDiv(months, MONTHS_PER_YEAR))
\* Some(self.months() % MONTHS_PER_YEAR as i32)
ym_month(months) == Some(ZRem(months, MONTHS_PER_YEAR))
\* variant of ym_day: a day of zero
ym_day_zero(months) == Some(Z(0))
ym_day(months) == None
ym_hour(months) == None
ym_minute(months) == None
ym_second(months) == None

dt_year(usecs) == None
dt_month(usecs) == None
\* Some((self.usecs() / USECONDS_PER_DAY) as i32)
dt_day(usecs) == Some(WrapI32(ZDiv(usecs, USECONDS_PER_DAY)))
\* variant of dt_hour: the hours of the whole interval
dt_hour_total(usecs) == Some(WrapI32(ZDiv(usecs, USECONDS_PER_HOUR)))

\* Some((remain_time / USECONDS_PER_HOUR) as i32)
dt_hour(usecs) ==
    Some(WrapI32(ZDiv(ZRem(usecs, USECONDS_PER_DAY), USECONDS_PER_HOUR)))
\* Some((remain_time / USECONDS_PER_MINUTE) as i32)
dt_minute(usecs) ==
    Some(WrapI32(ZDiv(ZRem(usecs, USECONDS_PER_HOUR), USECONDS_PER_MINUTE)))
\* Some(remain_time as f64 / USECONDS_PER_SECOND as f64)
dt_second(usecs) ==
    Some(F64Div(I64ToF64(ZRem(usecs, USECONDS_PER_MINUTE)),
                I64ToF64(USECONDS_PER_SECOND)))

\* the fields that DateTime has an accessor for
Fields == {"year", "month", "day", "hour", "minute", "sec"}

\* the accessor that reads the field f
ym_accessor(f, months) ==
    CASE f = "year" -> ym_year(months)
      [] f = "month" -> ym_month(months)
      [] f = "day" -> ym_day(months)
      [] f = "hour" -> ym_hour(months)
      [] f = "minute" -> ym_minute(months)
      [] OTHER -> ym_second(months)

dt_accessor(f, usecs) ==
    CASE f = "year" -> dt_year(usecs)
      [] f = "month" -> dt_month(usecs)
      [] f = "day" -> dt_day(usecs)
      [] f = "hour" -> dt_hour(usecs)
      [] f = "minute" -> dt_minute(usecs)
      [] OTHER -> dt_second(usecs)

(***************************************************************************)
(* The pattern text codec (crate::format: Formatter and LazyFormat), which *)
(* interval.rs calls and whose code is not part of it; it is modelled from *)
(* the documentation and from what the tests of interval.rs fix.  A string *)
(* is a sequence of characters.  A token is a field with a width, or a     *)
(* literal with its text.                                                  *)
(***************************************************************************)
Digit == <<"0", "1", "2", "3", "4", "5", "6", "7", "8", "9">>
IsDigit(c) == \E d \in 1..10 : Digit[d] = c
DigitVal(c) == (CHOOSE d \in 1..10 : Digit[d] = c) - 1
IsSpace(c) == c = " "

\* patterns are read without regard to case
Lower(c) ==
    CASE c = "Y" -> "y" [] c = "M" -> "m" [] c = "D" -> "d" [] c = "H" -> "h"
      [] c = "I" -> "i" [] c = "S" -> "s" [] c = "F" -> "f" [] c = "X" -> "x"
      [] OTHER -> c
IsLetter(c) == Lower(c) \in {"y", "m", "d", "h", "i", "s", "f", "x"}

\* the character of s at i in lower case, or "" past the end
At(s, i) == IF i >= 1 /\ i <= Len(s) THEN Lower(s[i]) ELSE ""

Token(t, w, s) == [t |-> t, w |-> w, s |-> s]
CompileError == <<Token("error", 0, <<>>)>>

\* the least j >= i at which s is over or ceases to satisfy the test
EndOfLetters(s, i, c) ==
    CHOOSE j \in i..(Len(s) + 1) :
        /\ \A k \in i..(j - 1) : At(s, k) = c
        /\ At(s, j) # c
EndOfLiteral(s, i) ==
    CHOOSE j \in i..(Len(s) + 1) :
        /\ \A k \in i..(j - 1) : ~IsLetter(s[k])
        /\ (j = Len(s) + 1 \/ IsLetter(s[j]))

\* the token that starts at i, and the position after it (0: no such token)
TokenAt(s, i) ==
    CASE At(s, i) = "y" ->
            [tok |-> Token("year", EndOfLetters(s, i, "y") - i, <<>>),
             next |-> EndOfLetters(s, i, "y")]
      [] At(s, i) = "m" /\ At(s, i + 1) = "m" ->
            [tok |-> Token("month", 2, <<>>), next |-> i + 2]
      [] At(s, i) = "m" /\ At(s, i + 1) = "i" ->
            [tok |-> Token("minute", 2, <<>>), next |-> i + 2]
      [] At(s, i) = "d" /\ At(s, i + 1) = "d" ->
            [tok |-> Token("day", 2, <<>>), next |-> i + 2]
      [] At(s, i) = "h" /\ At(s, i + 1) = "h" /\ At(s, i + 2) = "2"
         /\ At(s, i + 3) = "4" ->
            [tok |-> Token("hour", 2, <<>>), next |-> i + 4]
      [] At(s, i) = "s" /\ At(s, i + 1) = "s" ->
            [tok |-> Token("sec", 2, <<>>), next |-> i + 2]
      [] At(s, i) = "f" /\ At(s, i + 1) = "f" /\ IsDigit(At(s, i + 2))
         /\ At(s, i + 2) # "0" ->
            [tok |-> Token("fraction", DigitVal(At(s, i + 2)), <<>>),
             next |-> i + 3]
      [] At(s, i) = "f" /\ At(s, i + 1) = "f" ->
            [tok |-> Token("fraction", 9, <<>>), next |-> i + 2]
      [] ~IsLetter(s[i]) ->
            [tok |-> Token("literal", 0, SubSeq(s, i, EndOfLiteral(s, i) - 1)),
             next |-> EndOfLiteral(s, i)]
      [] OTHER -> [tok |-> Token("error", 0, <<>>), next |-> 0]

\* the tokens of the pattern s from i on, after the tokens acc
RECURSIVE CompileFrom(_, _, _)
CompileNext(s, acc, ta) ==
    IF ta.next = 0 THEN CompileError
    ELSE CompileFrom(s, ta.next, Append(acc, ta.tok))

CompileFrom(s, i, acc) ==
    IF i > Len(s) THEN acc ELSE CompileNext(s, acc, TokenAt(s, i))

\* Formatter::try_new
Compile(s) == CompileFrom(s, 1, <<>>)
Compiled(toks) == toks = <<>> \/ toks[1].t # "error"

\* the decimal digits of the magnitude of z, at least w of them
TopDigits(limb) ==
    IF limb >= 1000 THEN 4 ELSE IF limb >= 100 THEN 3 ELSE IF limb >= 10 THEN 2 ELSE 1
NumDigits(mag) ==
    IF mag = <<>> THEN 0 ELSE 4 * (Len(mag) - 1) + TopDigits(mag[Len(mag)])

\* the digit of mag that stands for 10^e
DigitOf(mag, e) ==
    IF (e \div 4) + 1 > Len(mag) THEN "0"
    ELSE Digit[((mag[(e \div 4) + 1] \div 10^(e % 4)) % 10) + 1]

PadTo(mag, n) == [i \in 1..n |-> DigitOf(mag, n - i)]
Pad(z, w) == PadTo(z.mag, IF NumDigits(z.mag) > w THEN NumDigits(z.mag) ELSE w)

Zeros(n) == [i \in 1..n |-> "0"]

\* the first p digits of the microseconds, written with six digits
Fraction(usec, p) ==
    IF p <= 6 THEN SubSeq(Pad(usec, 6), 1, p) ELSE Pad(usec, 6) \o Zeros(p - 6)

\* what a token renders of the record dt
Render(tok, dt) ==
    CASE tok.t = "year" -> Pad(dt.year, tok.w)
      [] tok.t = "month" -> Pad(dt.month, tok.w)
      [] tok.t = "day" -> Pad(dt.day, tok.w)
      [] tok.t = "hour" -> Pad(dt.hour, tok.w)
      [] tok.t = "minute" -> Pad(dt.minute, tok.w)
      [] tok.t = "sec" -> Pad(dt.sec, tok.w)
      [] tok.t = "fraction" -> Fraction(dt.usec, tok.w)
      [] OTHER -> tok.s

RECURSIVE RenderFrom(_, _, _, _)
RenderFrom(toks, k, dt, acc) ==
    IF k > Len(toks) THEN acc
    ELSE RenderFrom(toks, k + 1, dt, acc \o Render(toks[k], dt))

\* the sign of the record, then its tokens in the order of the pattern
FormatRecord(toks, dt) ==
    RenderFrom(toks, 1, dt, IF dt.negative THEN <<"-">> ELSE <<"+">>)

NoText == <<>>

\* the number that the decimal digits ds denote
DigitOr0(ds, i) == IF i >= 1 THEN DigitVal(ds[i]) ELSE 0
LimbOf(ds, j) ==
    DigitOr0(ds, Len(ds) - 4 * (j - 1))
    + 10 * DigitOr0(ds, Len(ds) - 4 * (j - 1) - 1)
    + 100 * DigitOr0(ds, Len(ds) - 4 * (j - 1) - 2)
    + 1000 * DigitOr0(ds, Len(ds) - 4 * (j - 1) - 3)
NumberOf(ds) == Mk(FALSE, Strip([j \in 1..((Len(ds) + 3) \div 4) |-> LimbOf(ds, j)]))

\* the position of the first character of s from i on that is not a space
SkipSpace(s, i) ==
    CHOOSE j \in i..(Len(s) + 1) :
        /\ \A k \in i..(j - 1) : IsSpace(s[k])
        /\ (j = Len(s) + 1 \/ ~IsSpace(s[j]))

\* the position of the last character of s that is not a space
LastNonSpace(s) ==
    CHOOSE j \in 0..Len(s) :
        /\ \A k \in (j + 1)..Len(s) : IsSpace(s[k])
        /\ (j = 0 \/ ~IsSpace(s[j]))

Trim(s) == SubSeq(s, SkipSpace(s, 1), LastNonSpace(s))

\* the text t stands in s at i
MatchAt(s, i, t) ==
    /\ i + Len(t) - 1 <= Len(s)
    /\ \A k \in 1..Len(t) : s[i + k - 1] = t[k]

\* how many digits, at most max, stand in s at i
DigitRun(s, i, max) ==
    Cardinality({n \in 1..max : \A k \in i..(i + n - 1) : k <= Len(s) /\ IsDigit(s[k])})

\* the most digits a field token takes: year and day take all there are
MaxDigits(tok, s) == IF tok.t \in {"year", "day"} THEN Len(s) ELSE tok.w

\* the microseconds of n digits after the point, rounded from nanoseconds
FractionOf(ds) ==
    ZDiv(ZAdd(NumberOf(ds \o Zeros(9 - Len(ds))), Z(500)), Z(1000))

\* the record dt with the field of tok set to what the digits ds denote
SetField(dt, tok, ds) ==
    CASE tok.t = "year" -> [dt EXCEPT !.year = NumberOf(ds)]
      [] tok.t = "month" -> [dt EXCEPT !.month = NumberOf(ds)]
      [] tok.t = "day" -> [dt EXCEPT !.day = NumberOf(ds)]
      [] tok.t = "hour" -> [dt EXCEPT !.hour = NumberOf(ds)]
      [] tok.t = "minute" -> [dt EXCEPT !.minute = NumberOf(ds)]
      [] tok.t = "sec" -> [dt EXCEPT !.sec = NumberOf(ds)]
      [] OTHER -> [dt EXCEPT !.usec = FractionOf(ds)]

Scanned(dt) == [ok |-> TRUE, dt |-> dt]
NotScanned == [ok |-> FALSE, dt |-> NaiveDateTime_new]

\* the tokens from k on are matched against s from i on, filling dt
RECURSIVE ScanFrom(_, _, _, _, _)
ScanField(toks, k, s, i, dt, n) ==
    IF n = 0 \/ n > 9 THEN NotScanned
    ELSE ScanFrom(toks, k + 1, s, i + n, SetField(dt, toks[k], SubSeq(s, i, i + n - 1)))

\* variant of ScanLiteral: the literal matched with its spaces
ScanLiteralVerbatim(toks, k, s, i, dt, t) ==
    IF MatchAt(s, i, toks[k].s)
    THEN ScanFrom(toks, k + 1, s, i + Len(toks[k].s), dt) ELSE NotScanned

ScanLiteral(toks, k, s, i, dt, t) ==
    IF MatchAt(s, i, t) THEN ScanFrom(toks, k + 1, s, i + Len(t), dt) ELSE NotScanned

ScanToken(toks, k, s, i, dt) ==
    IF toks[k].t = "literal" THEN ScanLiteral(toks, k, s, i, dt, Trim(toks[k].s))
    ELSE ScanField(toks, k, s, i, dt, DigitRun(s, i, MaxDigits(toks[k], s)))

ScanFrom(toks, k, s, i, dt) ==
    IF k > Len(toks)
    THEN (IF SkipSpace(s, i) > Len(s) THEN Scanned(dt) ELSE NotScanned)
    ELSE ScanToken(toks, k, s, SkipSpace(s, i), dt)

\* the sign of the text: the year of a text that begins with '-' is read
\* with its sign (tests of interval.rs, lines 659-661 and 679-699)
Signed(r) ==
    IF r.ok THEN Scanned([r.dt EXCEPT !.year = ZNeg(@), !.negative = TRUE]) ELSE r

ScanSigned(toks, s, i) ==
    IF i <= Len(s) /\ s[i] = "-"
    THEN Signed(ScanFrom(toks, 1, s, i + 1, NaiveDateTime_new))
    ELSE IF i <= Len(s) /\ s[i] = "+"
    THEN ScanFrom(toks, 1, s, i + 1, NaiveDateTime_new)
    ELSE ScanFrom(toks, 1, s, i, NaiveDateTime_new)

\* Formatter::parse: the record that the text s denotes under the tokens
ParseRecord(toks, s) == ScanSigned(toks, s, SkipSpace(s, 1))

\* the field that a token reads or writes; the fraction is of the second
FieldOf(tok) == IF tok.t = "fraction" THEN "sec" ELSE tok.t

\* a type takes the tokens whose fields its accessors return
YmTakes(toks) ==
    \A k \in 1..Len(toks) :
        toks[k].t = "literal" \/ ym_accessor(FieldOf(toks[k]), Z(0)).some
DtTakes(toks) ==
    \A k \in 1..Len(toks) :
        toks[k].t = "literal" \/ dt_accessor(FieldOf(toks[k]), Z(0)).some

ParseError == Err("ParseError")

\* what format returns: an error of the pattern, or the text that the
\* returned value displays
Formatted(toks, d) ==
    IF Compiled(toks)
    THEN [res |-> WithOvf(Ok(Z(0)), d.ovf), text |-> FormatRecord(toks, d.v)]
    ELSE [res |-> ParseError, text |-> NoText]

\* IntervalYM::format: LazyFormat displays NaiveDateTime::from(self)
ym_format(interval, fmt) == Formatted(Compile(fmt), naive_from_ym(interval))
\* IntervalDT::format
dt_format(interval, fmt) == Formatted(Compile(fmt), naive_from_dt(interval))

\* Formatter::parse::<IntervalYM>: IntervalYM::try_from of the record read
ym_of_scanned(r) == IF r.ok THEN ym_try_from_naive(r.dt) ELSE ParseError
ym_parse_tokens(toks, input) ==
    IF Compiled(toks) /\ YmTakes(toks)
    THEN ym_of_scanned(ParseRecord(toks, input)) ELSE ParseError

\* Formatter::parse::<IntervalDT>: IntervalDT::try_from of the record read
dt_of_scanned(r) == IF r.ok THEN dt_try_from_naive(r.dt) ELSE ParseError
dt_parse_tokens(toks, input) ==
    IF Compiled(toks) /\ DtTakes(toks)
    THEN dt_of_scanned(ParseRecord(toks, input)) ELSE ParseError

\* IntervalYM::parse
ym_parse(input, fmt) == ym_parse_tokens(Compile(fmt), input)
\* IntervalDT::parse
dt_parse(input, fmt) == dt_parse_tokens(Compile(fmt), input)

(***************************************************************************)
(* Inputs.                                                                 *)
(***************************************************************************)
\* the longest chain of operations applied to a constructed value
MaxOps == 1

YearInputs == {Z(0), Z(1), Z(177999999), Z(178000000), Z(178000001), U32_MAX}
MonthInputs == {Z(0), Z(2), Z(11), Z(12), U32_MAX}

MonthsInputs ==
    {Z(0), Z(-11), INTERVAL_MAX_MONTH, ZAdd(INTERVAL_MAX_MONTH, Z(1)),
     ZNeg(INTERVAL_MAX_MONTH), ZSub(ZNeg(INTERVAL_MAX_MONTH), Z(1)),
     I32_MAX, I32_MIN}

\* (day, hour, minute, sec, usec): valid tuples, and each with some fields
\* replaced by the least value the field rejects or by u32::MAX
DhmsValid ==
    {<<Z(0), Z(0), Z(0), Z(0), Z(0)>>,
     <<Z(1), Z(2), Z(3), Z(4), Z(5)>>,
     <<Z(99999999), Z(23), Z(59), Z(59), Z(999999)>>,
     <<Z(100000000), Z(0), Z(0), Z(0), Z(0)>>}

DhmsLeastBad == <<Z(100000001), Z(24), Z(60), Z(60), Z(1000000)>>
DhmsMostBad == <<U32_MAX, U32_MAX, U32_MAX, U32_MAX, U32_MAX>>

\* the greatest day with a field that is valid but not zero
DhmsPastMax ==
    {<<Z(100000000), Z(2), Z(0), Z(0), Z(0)>>,
     <<Z(100000000), Z(0), Z(3), Z(0), Z(0)>>,
     <<Z(100000000), Z(0), Z(0), Z(4), Z(0)>>,
     <<Z(100000000), Z(0), Z(0), Z(0), Z(5)>>}

DhmsInputs ==
    {[i \in 1..5 |-> IF i \in bad THEN alt[i] ELSE base[i]] :
        base \in DhmsValid, bad \in SUBSET (1..5),
        alt \in {DhmsLeastBad, DhmsMostBad}}
    \cup DhmsPastMax

UsecsInputs ==
    {Z(0), Z(-11), Z(1003691), ZAdd(Pow2Tab[53], Z(1)),
     ZSub(INTERVAL_MAX_USECONDS, Z(1)),
     INTERVAL_MAX_USECONDS, ZAdd(INTERVAL_MAX_USECONDS, Z(1)),
     ZNeg(INTERVAL_MAX_USECONDS), ZSub(ZNeg(INTERVAL_MAX_USECONDS), Z(1)),
     I64_MAX, I64_MIN}

\* Time::try_from_hms(hour, minute, sec, usec).usecs(): the microseconds
\* since midnight
Time_usecs(t) ==
    ZAdd(ZAdd(ZMul(t[1], USECONDS_PER_HOUR), ZMul(t[2], USECONDS_PER_MINUTE)),
         ZAdd(ZMul(t[3], USECONDS_PER_SECOND), t[4]))

\* the hour, minute, sec and usec of the times of day
TimeFieldInputs ==
    {<<Z(0), Z(0), Z(0), Z(0)>>, <<Z(0), Z(0), Z(0), Z(1)>>,
     <<Z(1), Z(2), Z(3), Z(4)>>, <<Z(23), Z(59), Z(59), Z(999999)>>}

\* Time::usecs() of the times of day, 0 <= usecs < USECONDS_PER_DAY
TimeInputs == {Time_usecs(t) : t \in TimeFieldInputs}

\* the intervals added to and subtracted from a value
YmOperands == {Z(1), Z(-14), INTERVAL_MAX_MONTH, ZNeg(INTERVAL_MAX_MONTH)}
DtOperands ==
    {Z(1), ZNeg(ZAdd(ZMul(Z(93784), USECONDS_PER_SECOND), Z(5))),
     INTERVAL_MAX_USECONDS, ZNeg(INTERVAL_MAX_USECONDS)}

\* the scalars of mul_f64 and div_f64
Scalars ==
    {NaN, Inf(FALSE), Inf(TRUE), Fin(FALSE, Z(0), Z(1)), Fin(TRUE, Z(0), Z(1)),
     F64Int(1), F64Lit(-52, 10), Fin(FALSE, Z(1), Z(2)), F64Lit(1, 3),
     F64Int(1000000000), F64Max(FALSE), F64LeastSub(TRUE)}

\* records handed to TryFrom<NaiveDateTime>
NaiveYmInputs ==
    {[NaiveDateTime_new EXCEPT !.year = y, !.month = m, !.negative = n] :
        y \in {Z(0), Z(123), Z(-123), Z(178000000), I32_MIN},
        m \in {Z(0), Z(2), Z(12)}, n \in BOOLEAN}

NaiveDtInputs ==
    {[NaiveDateTime_new EXCEPT !.day = t[1], !.hour = t[2], !.minute = t[3],
                               !.sec = t[4], !.usec = t[5], !.negative = n] :
        t \in {<<Z(0), Z(0), Z(0), Z(0), Z(0)>>,
               <<Z(12), Z(4), Z(5), Z(6), Z(0)>>,
               <<Z(100000000), Z(0), Z(0), Z(0), Z(0)>>,
               <<Z(100000000), Z(2), Z(0), Z(0), Z(0)>>,
               <<Z(0), Z(24), Z(0), Z(0), Z(0)>>},
        n \in BOOLEAN}

\* the patterns of the calls of format and parse
\* "yyyy-mm"
PatYearMonth ==
    <<"y", "y", "y", "y", "-", "m", "m">>
\* "yy-mm"
PatShortYearMonth ==
    <<"y", "y", "-", "m", "m">>
\* "yyyy - mm"
PatYearMonthSpaced ==
    <<"y", "y", "y", "y", " ", "-", " ", "m", "m">>
\* "  yyyy - mm  "
PatYearMonthPadded ==
    <<" ", " ", "y", "y", "y", "y", " ", "-", " ", "m", "m", " ", " ">>
\* "YYYY"
PatYear ==
    <<"Y", "Y", "Y", "Y">>
\* "mm"
PatMonth ==
    <<"m", "m">>
\* "dd"
PatDay ==
    <<"d", "d">>
\* "hh24"
PatHour ==
    <<"h", "h", "2", "4">>
\* "mi"
PatMinute ==
    <<"m", "i">>
\* "ss"
PatSecond ==
    <<"s", "s">>
\* "yyyy"
PatLowerYear ==
    <<"y", "y", "y", "y">>
\* "yyyy-mm dd"
PatYearMonthDay ==
    <<"y", "y", "y", "y", "-", "m", "m", " ", "d", "d">>
\* "DD HH24:MI:SS.FF6"
PatDayTimeFraction ==
    <<"D", "D", " ", "H", "H", "2", "4", ":", "M", "I", ":", "S", "S", ".",
      "F", "F", "6">>
\* "DD HH24:MI:SS.FF"
PatDayTimeNanos ==
    <<"D", "D", " ", "H", "H", "2", "4", ":", "M", "I", ":", "S", "S", ".",
      "F", "F">>
\* "DD HH24:MI:SS"
PatDayTime ==
    <<"D", "D", " ", "H", "H", "2", "4", ":", "M", "I", ":", "S", "S">>
\* "HH24:MI"
PatHourMinute ==
    <<"H", "H", "2", "4", ":", "M", "I">>
\* "xx-mm"
PatUnknown ==
    <<"x", "x", "-", "m", "m">>

\* the patterns that values are formatted with
YmPatterns == {PatYearMonth, PatShortYearMonth, PatYear, PatMonth}
DtPatterns == {PatDayTimeFraction, PatDayTime, PatHourMinute}

\* the texts that IntervalYM::parse is called with
YmTexts ==
    {
     \* "-0000-11"
     [text |->
          <<"-", "0", "0", "0", "0", "-", "1", "1">>,
      fmt |-> PatYearMonth],
     \* "-0000 - 11"
     [text |->
          <<"-", "0", "0", "0", "0", " ", "-", " ", "1", "1">>,
      fmt |-> PatYearMonthSpaced],
     \* "-0000-11"
     [text |->
          <<"-", "0", "0", "0", "0", "-", "1", "1">>,
      fmt |-> PatYearMonthSpaced],
     \* "  -0000 - 11  "
     [text |->
          <<" ", " ", "-", "0", "0", "0", "0", " ", "-", " ", "1", "1", " ",
            " ">>,
      fmt |-> PatYearMonthSpaced],
     \* "  -0000 - 11  "
     [text |->
          <<" ", " ", "-", "0", "0", "0", "0", " ", "-", " ", "1", "1", " ",
            " ">>,
      fmt |-> PatYearMonthPadded],
     \* " -0000  -11"
     [text |->
          <<" ", "-", "0", "0", "0", "0", " ", " ", "-", "1", "1">>,
      fmt |-> PatYearMonth],
     \* "0000-11"
     [text |->
          <<"0", "0", "0", "0", "-", "1", "1">>,
      fmt |-> PatYearMonth],
     \* "+178000000-00"
     [text |->
          <<"+", "1", "7", "8", "0", "0", "0", "0", "0", "0", "-", "0", "0">>,
      fmt |-> PatYearMonth],
     \* "-178000000-00"
     [text |->
          <<"-", "1", "7", "8", "0", "0", "0", "0", "0", "0", "-", "0", "0">>,
      fmt |-> PatShortYearMonth],
     \* "12345-1"
     [text |->
          <<"1", "2", "3", "4", "5", "-", "1">>,
      fmt |-> PatYearMonth],
     \* "2022"
     [text |->
          <<"2", "0", "2", "2">>,
      fmt |-> PatYear],
     \* "-2022"
     [text |->
          <<"-", "2", "0", "2", "2">>,
      fmt |-> PatYear],
     \* "xxxx"
     [text |->
          <<"x", "x", "x", "x">>,
      fmt |-> PatShortYearMonth],
     \* "0001-01"
     [text |->
          <<"0", "0", "0", "1", "-", "0", "1">>,
      fmt |-> PatUnknown],
     \* "178000000-1"
     [text |->
          <<"1", "7", "8", "0", "0", "0", "0", "0", "0", "-", "1">>,
      fmt |-> PatYearMonth],
     \* "0-13"
     [text |->
          <<"0", "-", "1", "3">>,
      fmt |-> PatYearMonth],
     \* "0000-11x"
     [text |->
          <<"0", "0", "0", "0", "-", "1", "1", "x">>,
      fmt |-> PatYearMonth],
     \* "0000 11"
     [text |->
          <<"0", "0", "0", "0", " ", "1", "1">>,
      fmt |-> PatYearMonth],
     \* "11"
     [text |->
          <<"1", "1">>,
      fmt |-> PatDay],
     \* "11"
     [text |->
          <<"1", "1">>,
      fmt |-> PatHour],
     \* "11"
     [text |->
          <<"1", "1">>,
      fmt |-> PatMinute],
     \* "11"
     [text |->
          <<"1", "1">>,
      fmt |-> PatSecond],
     \* "2022-01 11"
     [text |->
          <<"2", "0", "2", "2", "-", "0", "1", " ", "1", "1">>,
      fmt |-> PatYearMonthDay],
     \* "+0000-00 00"
     [text |->
          <<"+", "0", "0", "0", "0", "-", "0", "0", " ", "0", "0">>,
      fmt |-> PatYearMonthDay]}

\* the texts that IntervalDT::parse is called with
DtTexts ==
    {
     \* "100000000 00:00:00"
     [text |->
          <<"1", "0", "0", "0", "0", "0", "0", "0", "0", " ", "0", "0", ":",
            "0", "0", ":", "0", "0">>,
      fmt |-> PatDayTime],
     \* "-12 4:5:6"
     [text |->
          <<"-", "1", "2", " ", "4", ":", "5", ":", "6">>,
      fmt |-> PatDayTime],
     \* " -12  4 : 5 :6 "
     [text |->
          <<" ", "-", "1", "2", " ", " ", "4", " ", ":", " ", "5", " ",
            ":", "6", " ">>,
      fmt |-> PatDayTime],
     \* "-0 00:00:00.000011"
     [text |->
          <<"-", "0", " ", "0", "0", ":", "0", "0", ":", "0", "0", ".", "0",
            "0", "0", "0", "1", "1">>,
      fmt |-> PatDayTimeFraction],
     \* "-0 00:00:00.000011"
     [text |->
          <<"-", "0", " ", "0", "0", ":", "0", "0", ":", "0", "0", ".", "0",
            "0", "0", "0", "1", "1">>,
      fmt |-> PatDayTimeNanos],
     \* "-0 00:00:00.000011567"
     [text |->
          <<"-", "0", " ", "0", "0", ":", "0", "0", ":", "0", "0", ".", "0",
            "0", "0", "0", "1", "1", "5", "6", "7">>,
      fmt |-> PatDayTimeNanos],
     \* "23:59"
     [text |->
          <<"2", "3", ":", "5", "9">>,
      fmt |-> PatHourMinute],
     \* "100000000 02:00:00.0"
     [text |->
          <<"1", "0", "0", "0", "0", "0", "0", "0", "0", " ", "0", "2", ":",
            "0", "0", ":", "0", "0", ".", "0">>,
      fmt |-> PatDayTimeNanos],
     \* "0 24:00:00.0"
     [text |->
          <<"0", " ", "2", "4", ":", "0", "0", ":", "0", "0", ".", "0">>,
      fmt |-> PatDayTimeNanos],
     \* "-100000 02:00"
     [text |->
          <<"-", "1", "0", "0", "0", "0", "0", " ", "0", "2", ":", "0", "0">>,
      fmt |-> PatDayTimeNanos],
     \* "1919"
     [text |->
          <<"1", "9", "1", "9">>,
      fmt |-> PatLowerYear],
     \* "19"
     [text |->
          <<"1", "9">>,
      fmt |-> PatMonth],
     \* "2022-01 11"
     [text |->
          <<"2", "0", "2", "2", "-", "0", "1", " ", "1", "1">>,
      fmt |-> PatYearMonthDay],
     \* "+0000-00 00"
     [text |->
          <<"+", "0", "0", "0", "0", "-", "0", "0", " ", "0", "0">>,
      fmt |-> PatYearMonthDay]}

(***************************************************************************)
(* State: the last call (op, its receiver recv, its arguments other,       *)
(* number, flds, ndt, text and fmt, or the field of an accessor), what it  *)
(* returned (ret, ext, ndt, text, got), the interval that calls are        *)
(* applied to (cur) and the number of operations applied to it since it    *)
(* was constructed (steps).                                                *)
(***************************************************************************)
VARIABLES cur, op, recv, other, number, flds, ret, ext, ndt, text, fmt, field,
          got, steps

vars ==
    <<cur, op, recv, other, number, flds, ret, ext, ndt, text, fmt, field, got, steps>>

NoNumber == Fin(FALSE, Z(0), Z(1))
NoFlds == <<Z(0), Z(0), Z(0), Z(0), Z(0)>>
NoExt == <<"Positive", Z(0), Z(0), Z(0), Z(0), Z(0)>>
NoRet == Ok(Z(0))

\* pub const MIN, MAX and ZERO of both types
YM_MAX == from_ym_unchecked(Z(178000000), Z(0)).v
YM_MIN == ym_negate(from_ym_unchecked(Z(178000000), Z(0)).v).v
YM_ZERO == Z(0)
DT_MAX == from_dhms_unchecked(Z(100000000), Z(0), Z(0), Z(0), Z(0)).v
DT_MIN == dt_negate(from_dhms_unchecked(Z(100000000), Z(0), Z(0), Z(0), Z(0)).v).v
DT_ZERO == Z(0)

Init ==
    /\ cur = [ty |-> "none", v |-> Z(0)]
    /\ op = "init"
    /\ recv = Z(0)
    /\ other = Z(0)
    /\ number = NoNumber
    /\ flds = NoFlds
    /\ ret = NoRet
    /\ ext = NoExt
    /\ ndt = NaiveDateTime_new
    /\ text = NoText
    /\ fmt = NoText
    /\ field = "none"
    /\ got = None
    /\ steps = 0

\* a call that makes an interval of type ty
Make(o, ty, y, fl, d, res) ==
    /\ ret' \in Outcomes(res)
    /\ op' = o
    /\ recv' = Z(0)
    /\ other' = y
    /\ number' = NoNumber
    /\ flds' = fl
    /\ ndt' = d
    /\ ext' = NoExt
    /\ cur' = IF ret'.ok THEN [ty |-> ty, v |-> ret'.v] ELSE cur
    /\ field' = "none"
    /\ got' = None
    /\ steps' = 0

\* a call that makes an interval of type ty out of its arguments alone
Construct(o, ty, y, fl, d, res) ==
    /\ Make(o, ty, y, fl, d, res)
    /\ text' = NoText
    /\ fmt' = NoText

\* the interval of type ty whose fields or record the next call reads
Readable(ty) ==
    /\ cur.ty = ty
    /\ ret.ok
    /\ op \notin {"init", "ym_extract", "dt_extract", "naive_from_ym", "naive_from_dt",
                 "ym_format", "dt_format", "ym_accessor", "dt_accessor",
                 "dt_eq_time", "dt_partial_cmp_time"}

\* the interval of type ty that the next operation is applied to
Ready(ty) == Readable(ty) /\ steps < MaxOps

\* an operation of the interval cur that returns an interval
Apply(o, y, f, d, res) ==
    /\ ret' \in Outcomes(res)
    /\ op' = o
    /\ recv' = cur.v
    /\ other' = y
    /\ number' = f
    /\ flds' = NoFlds
    /\ ndt' = d
    /\ ext' = NoExt
    /\ cur' = IF ret'.ok THEN [cur EXCEPT !.v = ret'.v] ELSE cur
    /\ field' = "none"
    /\ got' = None
    /\ steps' = steps + 1

Operate(o, y, f, d, res) ==
    /\ Apply(o, y, f, d, res)
    /\ text' = NoText
    /\ fmt' = NoText

\* an operation of the interval cur that returns its fields e, its record d
\* or its text t under the pattern f
Show(o, e, d, t, f, res) ==
    /\ ret' \in Outcomes(res)
    /\ op' = o
    /\ recv' = cur.v
    /\ other' = Z(0)
    /\ number' = NoNumber
    /\ flds' = NoFlds
    /\ ndt' = d
    /\ ext' = e
    /\ text' = t
    /\ fmt' = f
    /\ field' = "none"
    /\ got' = None
    /\ UNCHANGED <<cur, steps>>

\* an accessor f of the interval cur, or its comparison with y, that returns g
Probe(o, f, y, g) ==
    /\ got' = g
    /\ op' = o
    /\ recv' = cur.v
    /\ field' = f
    /\ ret' = NoRet
    /\ other' = y
    /\ number' = NoNumber
    /\ flds' = NoFlds
    /\ ndt' = NaiveDateTime_new
    /\ ext' = NoExt
    /\ text' = NoText
    /\ fmt' = NoText
    /\ UNCHANGED <<cur, steps>>

Read(o, e, d, ovf) == Show(o, e, d, NoText, NoText, WithOvf(NoRet, ovf))

ReadFields(o, e, pad) == Read(o, e.v \o pad, NaiveDateTime_new, e.ovf)
ReadRecord(o, d) == Read(o, NoExt, d.v, d.ovf)

Const ==
    /\ op = "init"
    /\ \E c \in {[ty |-> "YM", v |-> YM_ZERO], [ty |-> "YM", v |-> YM_MAX],
                 [ty |-> "YM", v |-> YM_MIN], [ty |-> "DT", v |-> DT_ZERO],
                 [ty |-> "DT", v |-> DT_MAX], [ty |-> "DT", v |-> DT_MIN]} :
          /\ cur' = c
          /\ ret' = Ok(c.v)
    /\ op' = "const"
    /\ UNCHANGED <<recv, other, number, flds, ext, ndt, text, fmt, field, got, steps>>

TryFromYm ==
    /\ op = "init"
    /\ \E year \in YearInputs, month \in MonthInputs :
        Construct("try_from_ym", "YM", Z(0), <<year, month, Z(0), Z(0), Z(0)>>,
                  NaiveDateTime_new, try_from_ym(year, month))

TryFromMonths ==
    /\ op = "init"
    /\ \E months \in MonthsInputs :
        Construct("try_from_months", "YM", months, NoFlds, NaiveDateTime_new,
                  try_from_months(months))

TryFromNaiveYm ==
    \/ /\ op = "init"
       /\ \E d \in NaiveYmInputs :
          Construct("ym_try_from_naive", "YM", Z(0), NoFlds, d, ym_try_from_naive(d))
    \/ /\ op = "naive_from_ym"
       /\ cur.ty = "YM"
       /\ steps < MaxOps
       /\ Operate("ym_try_from_naive", Z(0), NoNumber, ndt, ym_try_from_naive(ndt))

NegateYm ==
    /\ Ready("YM")
    /\ Operate("ym_negate", Z(0), NoNumber, NaiveDateTime_new, OkRaw(ym_negate(cur.v)))

AddIntervalYm ==
    /\ Ready("YM")
    /\ \E interval \in YmOperands :
          Operate("add_interval_ym", interval, NoNumber, NaiveDateTime_new,
                  add_interval_ym(cur.v, interval))

SubIntervalYm ==
    /\ Ready("YM")
    /\ \E interval \in YmOperands :
          Operate("sub_interval_ym", interval, NoNumber, NaiveDateTime_new,
                  sub_interval_ym(cur.v, interval))

MulF64Ym ==
    /\ Ready("YM")
    /\ \E f \in Scalars :
          Operate("ym_mul_f64", Z(0), f, NaiveDateTime_new, ym_mul_f64(cur.v, f))

DivF64Ym ==
    /\ Ready("YM")
    /\ \E f \in Scalars :
          Operate("ym_div_f64", Z(0), f, NaiveDateTime_new, ym_div_f64(cur.v, f))

ExtractYm ==
    /\ Readable("YM")
    /\ ReadFields("ym_extract", ym_extract(cur.v), <<Z(0), Z(0), Z(0)>>)

NaiveFromYm ==
    /\ Readable("YM")
    /\ ReadRecord("naive_from_ym", naive_from_ym(cur.v))

\* year(), month(), day(), hour(), minute() and second() of an IntervalYM
AccessorYm ==
    /\ Ready("YM")
    /\ \E f \in Fields : Probe("ym_accessor", f, Z(0), ym_accessor(f, cur.v))

FormatYm ==
    /\ Ready("YM")
    /\ \E f \in YmPatterns :
          Show("ym_format", NoExt, naive_from_ym(cur.v).v, ym_format(cur.v, f).text,
               f, ym_format(cur.v, f).res)

ParseYm ==
    \/ /\ op = "init"
       /\ \E t \in YmTexts :
          /\ Make("ym_parse", "YM", Z(0), NoFlds, NaiveDateTime_new,
                  ym_parse(t.text, t.fmt))
          /\ text' = t.text
          /\ fmt' = t.fmt
    \/ /\ op = "ym_format"
       /\ ret.ok
       /\ Apply("ym_parse", Z(0), NoNumber, NaiveDateTime_new, ym_parse(text, fmt))
       /\ UNCHANGED <<text, fmt>>

TryFromDhms ==
    /\ op = "init"
    /\ \E t \in DhmsInputs :
        Construct("try_from_dhms", "DT", Z(0), t, NaiveDateTime_new,
                  try_from_dhms(t[1], t[2], t[3], t[4], t[5]))

TryFromUsecs ==
    /\ op = "init"
    /\ \E usecs \in UsecsInputs :
        Construct("try_from_usecs", "DT", usecs, NoFlds, NaiveDateTime_new,
                  try_from_usecs(usecs))

FromTime ==
    /\ op = "init"
    /\ \E time \in TimeInputs :
        Construct("from_time", "DT", time, NoFlds, NaiveDateTime_new,
                  Ok(from_time(time)))

TryFromNaiveDt ==
    \/ /\ op = "init"
       /\ \E d \in NaiveDtInputs :
          Construct("dt_try_from_naive", "DT", Z(0), NoFlds, d, dt_try_from_naive(d))
    \/ /\ op = "naive_from_dt"
       /\ cur.ty = "DT"
       /\ steps < MaxOps
       /\ Operate("dt_try_from_naive", Z(0), NoNumber, ndt, dt_try_from_naive(ndt))

NegateDt ==
    /\ Ready("DT")
    /\ Operate("dt_negate", Z(0), NoNumber, NaiveDateTime_new, OkRaw(dt_negate(cur.v)))

AddIntervalDt ==
    /\ Ready("DT")
    /\ \E interval \in DtOperands :
          Operate("add_interval_dt", interval, NoNumber, NaiveDateTime_new,
                  add_interval_dt(cur.v, interval))

SubIntervalDt ==
    /\ Ready("DT")
    /\ \E interval \in DtOperands :
          Operate("sub_interval_dt", interval, NoNumber, NaiveDateTime_new,
                  sub_interval_dt(cur.v, interval))

MulF64Dt ==
    /\ Ready("DT")
    /\ \E f \in Scalars :
          Operate("dt_mul_f64", Z(0), f, NaiveDateTime_new, dt_mul_f64(cur.v, f))

DivF64Dt ==
    /\ Ready("DT")
    /\ \E f \in Scalars :
          Operate("dt_div_f64", Z(0), f, NaiveDateTime_new, dt_div_f64(cur.v, f))

SubTime ==
    /\ Ready("DT")
    /\ \E time \in TimeInputs :
          Operate("sub_time", time, NoNumber, NaiveDateTime_new, sub_time(cur.v, time))

ExtractDt ==
    /\ Readable("DT")
    /\ ReadFields("dt_extract", dt_extract(cur.v), <<>>)

NaiveFromDt ==
    /\ Readable("DT")
    /\ ReadRecord("naive_from_dt", naive_from_dt(cur.v))

\* interval == time
EqTime ==
    /\ Ready("DT")
    /\ \E time \in TimeInputs :
          Probe("dt_eq_time", "none", time, dt_eq_time(cur.v, time))

\* interval.partial_cmp(&time), which <, <=, > and >= are derived from
PartialCmpTime ==
    /\ Ready("DT")
    /\ \E time \in TimeInputs :
          Probe("dt_partial_cmp_time", "none", time, dt_partial_cmp_time(cur.v, time))

\* year(), month(), day(), hour(), minute() and second() of an IntervalDT
AccessorDt ==
    /\ Ready("DT")
    /\ \E f \in Fields : Probe("dt_accessor", f, Z(0), dt_accessor(f, cur.v))

FormatDt ==
    /\ Ready("DT")
    /\ \E f \in DtPatterns :
          Show("dt_format", NoExt, naive_from_dt(cur.v).v, dt_format(cur.v, f).text,
               f, dt_format(cur.v, f).res)

ParseDt ==
    \/ /\ op = "init"
       /\ \E t \in DtTexts :
          /\ Make("dt_parse", "DT", Z(0), NoFlds, NaiveDateTime_new,
                  dt_parse(t.text, t.fmt))
          /\ text' = t.text
          /\ fmt' = t.fmt
    \/ /\ op = "dt_format"
       /\ ret.ok
       /\ Apply("dt_parse", Z(0), NoNumber, NaiveDateTime_new, dt_parse(text, fmt))
       /\ UNCHANGED <<text, fmt>>

Next ==
    \/ Const
    \/ TryFromYm
    \/ TryFromMonths
    \/ TryFromNaiveYm
    \/ NegateYm
    \/ AddIntervalYm
    \/ SubIntervalYm
    \/ MulF64Ym
    \/ DivF64Ym
    \/ ExtractYm
    \/ NaiveFromYm
    \/ AccessorYm
    \/ FormatYm
    \/ ParseYm
    \/ TryFromDhms
    \/ TryFromUsecs
    \/ FromTime
    \/ TryFromNaiveDt
    \/ NegateDt
    \/ AddIntervalDt
    \/ SubIntervalDt
    \/ MulF64Dt
    \/ DivF64Dt
    \/ SubTime
    \/ ExtractDt
    \/ NaiveFromDt
    \/ EqTime
    \/ PartialCmpTime
    \/ AccessorDt
    \/ FormatDt
    \/ ParseDt

Spec == Init /\ [][Next]_vars

(***************************************************************************)
(* Properties.  Each is stated over the last call: its receiver and        *)
(* arguments, and what it returned.  The bounds and the factors are        *)
(* written out as the documentation gives them.                            *)
(***************************************************************************)
MaxMonths == Z(2136000000)
MaxUsecs == ZMul(Z(864), ZMul(Z(100000000), Z(100000000)))

WithinMonths(z) == ZLe(ZNeg(MaxMonths), z) /\ ZLe(z, MaxMonths)
WithinUsecs(z) == ZLe(ZNeg(MaxUsecs), z) /\ ZLe(z, MaxUsecs)

OutOfRange == Err("IntervalOutOfRange")

\* C1: every interval that a call returns as Ok, and so every interval that a
\* call is applied to, has |months| <= 2,136,000,000 or
\* |usecs| <= 8,640,000,000,000,000,000
C1_RangeInvariant ==
    /\ cur.ty = "YM" => WithinMonths(cur.v) /\ (ret.ok => WithinMonths(ret.v))
    /\ cur.ty = "DT" => WithinUsecs(cur.v) /\ (ret.ok => WithinUsecs(ret.v))

\* an operation applied to a constructed value returned the greatest interval
C1_Witness ==
    /\ op = "add_interval_dt"
    /\ steps >= 1
    /\ ret = Ok(MaxUsecs)
    /\ cur = [ty |-> "DT", v |-> MaxUsecs]

\* what add and sub return for the exact sum or difference s
SumOutcome(s, within) == IF within THEN Ok(s) ELSE OutOfRange

\* C2: add_interval returns Ok(x + y) exactly when |x + y| is within the bound
\* and Err(IntervalOutOfRange) otherwise, whether or not the machine sum
\* overflows; sub_interval(x, y) returns what add_interval(x, negate(y)) does
C2_AddSub ==
    /\ op = "add_interval_ym" =>
          ret = SumOutcome(ZAdd(recv, other), WithinMonths(ZAdd(recv, other)))
    /\ op = "sub_interval_ym" =>
          /\ ret = SumOutcome(ZSub(recv, other), WithinMonths(ZSub(recv, other)))
          /\ ret = add_interval_ym(recv, ym_negate(other).v)
    /\ op = "add_interval_dt" =>
          ret = SumOutcome(ZAdd(recv, other), WithinUsecs(ZAdd(recv, other)))
    /\ op = "sub_interval_dt" =>
          /\ ret = SumOutcome(ZSub(recv, other), WithinUsecs(ZSub(recv, other)))
          /\ ret = add_interval_dt(recv, dt_negate(other).v)

\* a sum that does not fit i64 was reported as out of range
C2_Witness ==
    /\ op = "add_interval_dt"
    /\ ZGt(ZAdd(recv, other), I64_MAX)
    /\ ret = OutOfRange

\* C3: try_from_ym(year, month) fails with IntervalOutOfRange when
\* year > 178,000,000 or year = 178,000,000 with month # 0, otherwise with
\* InvalidMonth when month >= 12, and otherwise returns year * 12 + month,
\* computed without overflow
C3_TryFromYm ==
    op = "try_from_ym" =>
        ret = IF ZGt(flds[1], Z(178000000))
                 \/ (flds[1] = Z(178000000) /\ flds[2] # Z(0))
              THEN OutOfRange
              ELSE IF ZGe(flds[2], Z(12)) THEN Err("InvalidMonth")
              ELSE Ok(ZAdd(ZMul(flds[1], Z(12)), flds[2]))

\* a year out of range with a month that is invalid too
C3_Witness ==
    /\ op = "try_from_ym"
    /\ ZGt(flds[1], Z(178000000))
    /\ ZGe(flds[2], Z(12))
    /\ ret = OutOfRange

\* day * 86,400,000,000 + hour * 3,600,000,000 + minute * 60,000,000
\* + sec * 1,000,000 + usec
DhmsUsecs(t) ==
    ZAdd(ZAdd(ZAdd(ZAdd(ZMul(t[1], ZMul(Z(86400), Z(1000000))),
                        ZMul(t[2], ZMul(Z(3600), Z(1000000)))),
                   ZMul(t[3], Z(60000000))),
              ZMul(t[4], Z(1000000))),
         t[5])

\* C4: try_from_dhms returns the first failure of IntervalOutOfRange,
\* TimeOutOfRange, InvalidMinute, InvalidSecond, InvalidFraction, in this
\* order, and otherwise Ok of the microseconds of its fields
C4_TryFromDhms ==
    op = "try_from_dhms" =>
        ret = IF ZGt(flds[1], Z(100000000))
                 \/ (flds[1] = Z(100000000)
                     /\ \E i \in 2..5 : flds[i] # Z(0))
              THEN OutOfRange
              ELSE IF ZGe(flds[2], Z(24)) THEN Err("TimeOutOfRange")
              ELSE IF ZGe(flds[3], Z(60)) THEN Err("InvalidMinute")
              ELSE IF ZGe(flds[4], Z(60)) THEN Err("InvalidSecond")
              ELSE IF ZGt(flds[5], Z(999999)) THEN Err("InvalidFraction")
              ELSE Ok(DhmsUsecs(flds))

\* an hour out of range with every later field invalid too
C4_Witness ==
    /\ op = "try_from_dhms"
    /\ ret = Err("TimeOutOfRange")
    /\ ZGe(flds[3], Z(60))
    /\ ZGe(flds[4], Z(60))
    /\ ZGt(flds[5], Z(999999))

\* C5: try_from_months(m) returns Ok(m) exactly when
\* -2,136,000,000 <= m <= 2,136,000,000, try_from_usecs(u) returns Ok(u)
\* exactly when |u| <= 8,640,000,000,000,000,000, and both return
\* Err(IntervalOutOfRange) otherwise
C5_TryFromCount ==
    /\ op = "try_from_months" =>
          ret = IF WithinMonths(other) THEN Ok(other) ELSE OutOfRange
    /\ op = "try_from_usecs" =>
          ret = IF WithinUsecs(other) THEN Ok(other) ELSE OutOfRange

\* the least count of months past the bound was refused
C5_Witness ==
    /\ op = "try_from_months"
    /\ other = ZAdd(MaxMonths, Z(1))
    /\ ret = OutOfRange

\* C6: negate(x) is Ok of the opposite integer, computed without overflow and
\* within the bound; negating it again gives x; negate(ZERO) is ZERO and
\* negate(MAX) is MIN
C6_Negate ==
    /\ op = "ym_negate" =>
          /\ ret = Ok(ZNeg(recv))
          /\ WithinMonths(ret.v)
          /\ ym_negate(ret.v) = Raw(recv, FALSE)
          /\ (recv = YM_ZERO => ret.v = YM_ZERO)
          /\ (recv = YM_MAX => ret.v = YM_MIN)
    /\ op = "dt_negate" =>
          /\ ret = Ok(ZNeg(recv))
          /\ WithinUsecs(ret.v)
          /\ dt_negate(ret.v) = Raw(recv, FALSE)
          /\ (recv = DT_ZERO => ret.v = DT_ZERO)
          /\ (recv = DT_MAX => ret.v = DT_MIN)

\* the least interval was negated into the greatest
C6_Witness ==
    /\ op = "dt_negate"
    /\ recv = ZNeg(MaxUsecs)
    /\ ret = Ok(MaxUsecs)

YmFields(sign, year, month) == <<sign, year, month, Z(0), Z(0), Z(0)>>

\* what extract returns for months when try_from_ym(year, month) returned r
ExtractsYm(months, e, r, year, month) ==
    r.ok =>
       /\ months = r.v => e = YmFields("Positive", year, month)
       /\ months = ZNeg(r.v) /\ ~ZIsZero(months) =>
             e = YmFields("Negative", year, month)
       /\ months = ZNeg(r.v) /\ ZIsZero(months) =>
             e = YmFields("Positive", Z(0), Z(0))

\* C7: extract of try_from_ym(year, month) is (Positive, year, month), extract
\* of its negation is (Negative, year, month), or (Positive, 0, 0) when both
\* are zero; the sign is Negative exactly when the count of months is below 0
C7_ExtractYm ==
    op = "ym_extract" =>
       /\ ret = NoRet
       /\ (ext[1] = "Negative") = ZLt(recv, Z(0))
       /\ \A year \in YearInputs, month \in MonthInputs :
             ExtractsYm(recv, ext, try_from_ym(year, month), year, month)

\* the fields of the negation of try_from_ym(178000000, 0)
C7_Witness ==
    /\ op = "ym_extract"
    /\ steps >= 1
    /\ recv = ZNeg(ZMul(Z(178000000), Z(12)))
    /\ ext = YmFields("Negative", Z(178000000), Z(0))

\* t is the integer part, toward zero, of (-1)^neg * num / den
IsTruncOf(t, neg, num, den) ==
    /\ ZLe(ZMul(ZAbs(t), den), num)
    /\ ZLt(num, ZMul(ZAdd(ZAbs(t), Z(1)), den))
    /\ (ZIsZero(t) \/ t.neg = neg)

\* r is what scaling returns for the value (-1)^neg * num / den under the
\* bound max: Ok of its integer part, or out of range when that is past max
ScaledTo(r, neg, num, den, max) ==
    IF r.ok
    THEN r = Ok(r.v) /\ IsTruncOf(r.v, neg, num, den) /\ ZLe(ZAbs(r.v), max)
    ELSE r = OutOfRange /\ ZGe(num, ZMul(ZAdd(max, Z(1)), den))

\* the same for the double p, when p is finite
ScaledFloat(r, p, max) ==
    CASE p.k = "fin" -> ScaledTo(r, p.neg, p.num, p.den, max)
      [] p.k = "tiny" -> r = Ok(Z(0))
      [] p.k = "max" -> r = OutOfRange
      [] OTHER -> TRUE

FiniteScalar(f) == f.k \in {"fin", "max", "lsub"}
ZeroScalar(f) == f.k = "fin" /\ f.num = Z(0)

\* C8: for a finite scalar, mul_f64 and div_f64 return Ok of the integer part,
\* toward zero, of the double that the count converted to f64 times (or
\* divided by) the scalar rounds to, when the double is finite and the integer
\* is within the bound, and Err(IntervalOutOfRange) when the integer is not
C8_ScalingTruncates ==
    /\ op = "ym_mul_f64" /\ FiniteScalar(number) =>
          ScaledFloat(ret, F64Mul(I32ToF64(recv), number), MaxMonths)
    /\ op = "ym_div_f64" /\ FiniteScalar(number) /\ ~ZeroScalar(number) =>
          ScaledFloat(ret, F64Div(I32ToF64(recv), number), MaxMonths)
    /\ op = "dt_mul_f64" /\ FiniteScalar(number) =>
          ScaledFloat(ret, F64Mul(I64ToF64(recv), number), MaxUsecs)
    /\ op = "dt_div_f64" /\ FiniteScalar(number) /\ ~ZeroScalar(number) =>
          ScaledFloat(ret, F64Div(I64ToF64(recv), number), MaxUsecs)

\* 14 months * -5.2 = -72.8 gave -72 months
C8_Witness ==
    /\ op = "ym_mul_f64"
    /\ recv = Z(14)
    /\ number = F64Lit(-52, 10)
    /\ ret = Ok(Z(-72))

\* the same for the exact value (-1)^neg * num / den, when the double p that
\* the code computed is finite
ScaledExact(r, p, neg, num, den, max) ==
    p.k = "fin" => ScaledTo(r, neg, num, den, max)

\* C8 as stated: the integer part of the product (or quotient) of the count
\* and the scalar themselves
C8_ExactProduct ==
    /\ op = "ym_mul_f64" /\ number.k = "fin" =>
          ScaledExact(ret, F64Mul(I32ToF64(recv), number), recv.neg # number.neg,
                      ZMul(ZAbs(recv), number.num), number.den, MaxMonths)
    /\ op = "ym_div_f64" /\ number.k = "fin" /\ ~ZeroScalar(number) =>
          ScaledExact(ret, F64Div(I32ToF64(recv), number), recv.neg # number.neg,
                      ZMul(ZAbs(recv), number.den), number.num, MaxMonths)
    /\ op = "dt_mul_f64" /\ number.k = "fin" =>
          ScaledExact(ret, F64Mul(I64ToF64(recv), number), recv.neg # number.neg,
                      ZMul(ZAbs(recv), number.num), number.den, MaxUsecs)
    /\ op = "dt_div_f64" /\ number.k = "fin" /\ ~ZeroScalar(number) =>
          ScaledExact(ret, F64Div(I64ToF64(recv), number), recv.neg # number.neg,
                      ZMul(ZAbs(recv), number.den), number.num, MaxUsecs)

\* C9: div_f64 by 0.0 or -0.0 fails with DivideByZero, whatever the interval
C9_DivideByZero ==
    op \in {"ym_div_f64", "dt_div_f64"} /\ ZeroScalar(number) =>
        ret = Err("DivideByZero")

\* ZERO divided by 0.0, whose quotient is NaN
C9_Witness ==
    /\ op = "dt_div_f64"
    /\ recv = Z(0)
    /\ number = Fin(FALSE, Z(0), Z(1))
    /\ ret = Err("DivideByZero")

\* r is what scaling returns for a double p that is infinite or NaN
Unscalable(r, p) ==
    /\ p.k = "inf" => r = Err("NumericOverflow")
    /\ p.k = "nan" => r = Err("InvalidNumber")

\* C10: mul_f64 and div_f64 by NaN fail with InvalidNumber; mul_f64 by an
\* infinity fails with NumericOverflow for every interval but ZERO, and with
\* InvalidNumber for ZERO; an infinite intermediate is always reported as
\* NumericOverflow and one that is NaN as InvalidNumber
C10_NanAndInfinity ==
    /\ op \in {"ym_mul_f64", "ym_div_f64", "dt_mul_f64", "dt_div_f64"}
       /\ number.k = "nan" => ret = Err("InvalidNumber")
    /\ op \in {"ym_mul_f64", "dt_mul_f64"} /\ number.k = "inf" =>
          ret = IF recv = Z(0) THEN Err("InvalidNumber") ELSE Err("NumericOverflow")
    /\ op = "ym_mul_f64" => Unscalable(ret, F64Mul(I32ToF64(recv), number))
    /\ op = "dt_mul_f64" => Unscalable(ret, F64Mul(I64ToF64(recv), number))
    /\ op = "ym_div_f64" /\ ~ZeroScalar(number) =>
          Unscalable(ret, F64Div(I32ToF64(recv), number))
    /\ op = "dt_div_f64" /\ ~ZeroScalar(number) =>
          Unscalable(ret, F64Div(I64ToF64(recv), number))

\* an interval that is not ZERO was multiplied by -infinity
C10_Witness ==
    /\ op = "ym_mul_f64"
    /\ recv # Z(0)
    /\ number = Inf(TRUE)
    /\ ret = Err("NumericOverflow")

\* C10 as stated: mul_f64 by an infinity fails with NumericOverflow for every
\* interval
C10_InfinityAlwaysOverflows ==
    op \in {"ym_mul_f64", "dt_mul_f64"} /\ number.k = "inf" =>
        ret = Err("NumericOverflow")

\* C11: sub_time(x, t) returns Ok(x - t) when x - t >= -8,640,000,000,000,000,000
\* and Err(IntervalOutOfRange) otherwise, the subtraction never overflows, and
\* the result is that of sub_interval_dt(x, IntervalDT::from(t))
C11_SubTime ==
    op = "sub_time" =>
       /\ ret = IF ZGe(ZSub(recv, other), ZNeg(MaxUsecs))
                THEN Ok(ZSub(recv, other)) ELSE OutOfRange
       /\ ret = sub_interval_dt(recv, from_time(other))

\* a time of day subtracted from the least interval
C11_Witness ==
    /\ op = "sub_time"
    /\ recv = ZNeg(MaxUsecs)
    /\ other = Z(1)
    /\ ret = OutOfRange

\* the negation of what the field constructor returned, or its error
NegatedResult(r) == IF r.ok THEN Ok(ZNeg(r.v)) ELSE r

\* what the conversion of a record returns, given the result r of the field
\* constructor on the record's fields
FromRecord(negative, r) == IF negative THEN NegatedResult(r) ELSE r

\* C12: for a record whose fields are not negative, the conversion to an
\* interval returns what the field constructor returns for the record's
\* fields when negative is false, and the negation of its value, or its
\* error, when negative is true
C12_FromRecord ==
    /\ op = "ym_try_from_naive" /\ ZGe(ndt.year, Z(0)) =>
          ret = FromRecord(ndt.negative, try_from_ym(ndt.year, ndt.month))
    /\ op = "dt_try_from_naive" =>
          ret = FromRecord(ndt.negative,
                           try_from_dhms(ndt.day, ndt.hour, ndt.minute,
                                         ndt.sec, ndt.usec))

\* the interval of the fields that the pattern f renders of x
RenderedYm(x, f) ==
    try_from_ym(IF f = PatMonth THEN Z(0) ELSE ym_extract(x).v[2],
                IF f = PatYear THEN Z(0) ELSE ym_extract(x).v[3])
RenderedDt(x, f) ==
    try_from_dhms(IF f = PatHourMinute THEN Z(0) ELSE dt_extract(x).v[2],
                  dt_extract(x).v[3], dt_extract(x).v[4],
                  IF f = PatHourMinute THEN Z(0) ELSE dt_extract(x).v[5],
                  IF f = PatDayTimeFraction THEN dt_extract(x).v[6] ELSE Z(0))
SignedAs(x, r) == FromRecord(ZLt(x, Z(0)), r)

\* C13: parsing the text that format(x, pattern) produced, with the same
\* pattern, succeeds and yields x when the pattern holds all the fields of
\* the type ("yyyy-mm", "yy-mm", "DD HH24:MI:SS.FF6"); when the pattern holds
\* a part of the fields, it yields the interval of the rendered fields with
\* the sign of x.
C13_RoundTrip ==
    /\ op = "ym_parse" /\ steps > 0 =>
          /\ ret = SignedAs(recv, RenderedYm(recv, fmt))
          /\ fmt \in {PatYearMonth, PatShortYearMonth} => ret = Ok(recv)
    /\ op = "dt_parse" /\ steps > 0 =>
          /\ ret = SignedAs(recv, RenderedDt(recv, fmt))
          /\ fmt = PatDayTimeFraction => ret = Ok(recv)

C13_Witness ==
    /\ op = "ym_parse" /\ steps > 0 /\ fmt = PatYearMonth
    /\ recv = YM_MIN /\ ret = Ok(YM_MIN)
    /\ text = <<"-", "1", "7", "8", "0", "0", "0", "0", "0", "0", "-", "0", "0">>

\* the pattern f has a token of one of the kinds
HasToken(f, kinds) == \E k \in 1..Len(Compile(f)) : Compile(f)[k].t \in kinds

\* C14: IntervalYM::parse fails, whatever the input, when the pattern has a
\* day, hour, minute or second token, and IntervalDT::parse fails when the
\* pattern has a year or month token.
C14_Incompatible ==
    /\ op = "ym_parse" /\ HasToken(fmt, {"day", "hour", "minute", "sec"}) => ~ret.ok
    /\ op = "dt_parse" /\ HasToken(fmt, {"year", "month"}) => ~ret.ok

C14_Witness ==
    /\ op = "ym_parse" /\ fmt = PatDay /\ text = <<"1", "1">> /\ ret = ParseError

\* a character that numbers and keywords are made of
IsWord(c) == IsDigit(c) \/ IsLetter(c)

\* the space of s at i stands between two words and is the first of its run
Separates(s, i) ==
    /\ i > 1 /\ IsWord(s[i - 1])
    /\ SkipSpace(s, i) <= Len(s) /\ IsWord(s[SkipSpace(s, i)])

\* the positions of s that are kept when the spaces at both ends and around
\* the separators are removed, and the other runs of spaces are made one space
KeptIn(s) == {i \in 1..Len(s) : ~IsSpace(s[i]) \/ Separates(s, i)}
NthOf(K, j) == CHOOSE i \in K : Cardinality({k \in K : k <= i}) = j
Unspaced(s) == [j \in 1..Cardinality(KeptIn(s)) |-> s[NthOf(KeptIn(s), j)]]

\* C15: spaces at the start and the end of the input or of the pattern, and
\* around their separators, do not change what parse returns; "-0000-11"
\* under "yyyy-mm", with any such spaces added to either, is -11 months.
C15_Whitespace ==
    /\ op = "ym_parse" /\ steps = 0 =>
          /\ ret = ym_parse(Unspaced(text), Unspaced(fmt))
          /\ Unspaced(text) = <<"-", "0", "0", "0", "0", "-", "1", "1">>
             /\ Unspaced(fmt) = PatYearMonth => ret = Ok(Z(-11))
    /\ op = "dt_parse" /\ steps = 0 => ret = dt_parse(Unspaced(text), Unspaced(fmt))

C15_Witness ==
    /\ op = "ym_parse" /\ steps = 0 /\ fmt = PatYearMonthPadded
    /\ text = <<" ", " ", "-", "0", "0", "0", "0", " ", "-", " ", "1", "1", " ", " ">>
    /\ ret = Ok(Z(-11))

\* the field i of extract() is zero when the pattern f has no token of kind
Omitted(f, kind, e, i) == ~HasToken(f, {kind}) => e.v[i] = Z(0)

\* C16: a field that the pattern has no token for is zero in the parsed
\* interval: "2022" under "YYYY" is try_from_ym(2022, 0), and "-12 4:5:6"
\* under "DD HH24:MI:SS" is the negation of try_from_dhms(12, 4, 5, 6, 0).
C16_AbsentFields ==
    /\ op = "ym_parse" /\ ret.ok =>
          /\ Omitted(fmt, "year", ym_extract(ret.v), 2)
          /\ Omitted(fmt, "month", ym_extract(ret.v), 3)
          /\ text = <<"2", "0", "2", "2">> => ret = try_from_ym(Z(2022), Z(0))
    /\ op = "dt_parse" /\ ret.ok =>
          /\ Omitted(fmt, "day", dt_extract(ret.v), 2)
          /\ Omitted(fmt, "hour", dt_extract(ret.v), 3)
          /\ Omitted(fmt, "minute", dt_extract(ret.v), 4)
          /\ Omitted(fmt, "sec", dt_extract(ret.v), 5)
          /\ Omitted(fmt, "fraction", dt_extract(ret.v), 6)
          /\ text = <<"-", "1", "2", " ", "4", ":", "5", ":", "6">> =>
                ret = FromRecord(TRUE, try_from_dhms(Z(12), Z(4), Z(5), Z(6), Z(0)))

C16_Witness ==
    /\ op = "ym_parse" /\ fmt = PatYear /\ text = <<"2", "0", "2", "2">>
    /\ ret = Ok(Z(24264)) /\ ym_extract(ret.v).v = <<"Positive", Z(2022), Z(0)>>

\* the sign character of the value x
SignOf(x) == IF ZLt(x, Z(0)) THEN "-" ELSE "+"

\* the characters a..b of t are digits that denote z
Reads(t, a, b, z) ==
    /\ a <= b
    /\ \A i \in a..b : IsDigit(t[i])
    /\ NumberOf(SubSeq(t, a, b)) = z

\* t is the sign of x, then year-month of the fields e
ShowsYm(t, x, e) ==
    /\ t[1] = SignOf(x)
    /\ Reads(t, 2, Len(t) - 3, e[2])
    /\ t[Len(t) - 2] = "-"
    /\ Reads(t, Len(t) - 1, Len(t), e[3])

\* t is the sign of x, then day hour:minute:second.fraction of the fields e
ShowsDt(t, x, e) ==
    /\ t[1] = SignOf(x)
    /\ Reads(t, 2, Len(t) - 16, e[2])
    /\ t[Len(t) - 15] = " "
    /\ Reads(t, Len(t) - 14, Len(t) - 13, e[3])
    /\ t[Len(t) - 12] = ":"
    /\ Reads(t, Len(t) - 11, Len(t) - 10, e[4])
    /\ t[Len(t) - 9] = ":"
    /\ Reads(t, Len(t) - 8, Len(t) - 7, e[5])
    /\ t[Len(t) - 6] = "."
    /\ Reads(t, Len(t) - 5, Len(t), e[6])

\* C17: a formatted interval begins with '+' when it is zero or positive and
\* with '-' when it is negative, and goes on with the magnitudes of
\* extract(); the record made of an interval has negative set exactly when
\* the interval is below zero, the magnitudes of extract() as its fields,
\* and zero in the fields of the other type.
C17_SignAndMagnitudes ==
    /\ op = "ym_format" /\ ret.ok =>
          /\ text[1] = SignOf(recv)
          /\ fmt \in {PatYearMonth, PatShortYearMonth} =>
                ShowsYm(text, recv, ym_extract(recv).v)
    /\ op = "dt_format" /\ ret.ok =>
          /\ text[1] = SignOf(recv)
          /\ fmt = PatDayTimeFraction => ShowsDt(text, recv, dt_extract(recv).v)
    /\ op = "naive_from_ym" /\ ret.ok =>
          ndt = [NaiveDateTime_new EXCEPT !.year = ym_extract(recv).v[2],
                                          !.month = ym_extract(recv).v[3],
                                          !.negative = ZLt(recv, Z(0))]
    /\ op = "naive_from_dt" /\ ret.ok =>
          ndt = [NaiveDateTime_new EXCEPT !.day = dt_extract(recv).v[2],
                                          !.hour = dt_extract(recv).v[3],
                                          !.minute = dt_extract(recv).v[4],
                                          !.sec = dt_extract(recv).v[5],
                                          !.usec = dt_extract(recv).v[6],
                                          !.negative = ZLt(recv, Z(0))]

C17_Witness ==
    /\ op = "dt_format" /\ fmt = PatDayTimeFraction /\ recv = Z(-11)
    /\ text = <<"-", "0", "0", " ", "0", "0", ":", "0", "0", ":", "0", "0", ".",
                "0", "0", "0", "0", "1", "1">>

\* z with the sign of the extracted fields e
WithSign(e, z) == IF e[1] = "Negative" THEN ZNeg(z) ELSE z

\* a == b of two doubles: equal values, 0.0 == -0.0
F64Eq(a, b) ==
    /\ a.k = "fin" /\ b.k = "fin"
    /\ ZMul(a.num, b.den) = ZMul(b.num, a.den)
    /\ (a.neg = b.neg \/ ZIsZero(a.num))

\* sec as f64 + a, for a double a >= 0
F64AddInt(sec, a) == F64Round(FALSE, ZAdd(ZMul(sec, a.den), a.num), a.den)

\* modifier as f64 * (sec as f64 + (usec as f64) / 1_000_000f64)
SecondInF64(e) ==
    [F64AddInt(e[5], F64Div(I32ToF64(e[6]), I32ToF64(USECONDS_PER_SECOND)))
        EXCEPT !.neg = (e[1] = "Negative")]

\* the double f is n/d with the sign neg, to within a relative 2^-53
NearestTo(f, neg, n, d) ==
    /\ f.k = "fin"
    /\ (f.neg = neg \/ ZIsZero(n))
    /\ ZLe(ZMul(ZAbs(ZSub(ZMul(f.num, d), ZMul(n, f.den))), Pow2Tab[53]),
           ZMul(n, f.den))

SecondUsecs(e) == ZAdd(ZMul(e[5], USECONDS_PER_SECOND), e[6])

\* the accessors of the integer fields, and of the fields of the other type
IntegerAccessors ==
    /\ op = "ym_accessor" =>
          /\ field = "year" => got = Some(WithSign(ym_extract(recv).v, ym_extract(recv).v[2]))
          /\ field = "month" => got = Some(WithSign(ym_extract(recv).v, ym_extract(recv).v[3]))
          /\ field \in {"day", "hour", "minute", "sec"} => ~got.some
    /\ op = "dt_accessor" =>
          /\ field \in {"year", "month"} => ~got.some
          /\ field = "day" => got = Some(WithSign(dt_extract(recv).v, dt_extract(recv).v[2]))
          /\ field = "hour" => got = Some(WithSign(dt_extract(recv).v, dt_extract(recv).v[3]))
          /\ field = "minute" => got = Some(WithSign(dt_extract(recv).v, dt_extract(recv).v[4]))

\* C18: with (sign, fields) = extract(x), year() and month() of an
\* IntervalYM, and day(), hour() and minute() of an IntervalDT, are the
\* fields with the sign; second() is the double nearest to the signed
\* sec + usec / 1,000,000, and it is that number when usec is 0; the
\* accessors of the fields of the other type return None.
C18_Accessors ==
    /\ IntegerAccessors
    /\ op = "dt_accessor" /\ field = "sec" =>
          /\ got.some
          /\ NearestTo(got.v, dt_extract(recv).v[1] = "Negative",
                       SecondUsecs(dt_extract(recv).v), USECONDS_PER_SECOND)

\* C18 as it was stated: second() == s * (sec + usec / 1,000,000), computed
\* in f64 as test_extract_dt computes it.
C18_SecondInF64 ==
    /\ IntegerAccessors
    /\ op = "dt_accessor" /\ field = "sec" =>
          got.some /\ F64Eq(got.v, SecondInF64(dt_extract(recv).v))

C18_Witness ==
    /\ op = "dt_accessor" /\ field = "hour"
    /\ recv = ZNeg(ZMul(Z(1051506), USECONDS_PER_SECOND))
    /\ got = Some(Z(-4))

\* C19: IntervalDT::from(t) of the time t of (hour, minute, sec, usec) is
\* try_from_dhms(0, hour, minute, sec, usec), has the microseconds of t, is
\* not negative, is within the bound and is equal to t; for every interval
\* x, x == t, x < t and x > t hold exactly when the microseconds of x are
\* equal to, below and above those of t, and partial_cmp is never None.
C19_TimeEmbedding ==
    /\ op = "from_time" =>
          /\ \A t \in TimeFieldInputs :
                other = Time_usecs(t) =>
                    ret = try_from_dhms(Z(0), t[1], t[2], t[3], t[4])
          /\ ret = Ok(other)
          /\ ZGe(ret.v, Z(0)) /\ WithinUsecs(ret.v)
          /\ dt_eq_time(ret.v, other)
          /\ dt_partial_cmp_time(ret.v, other) = Some("Equal")
    /\ op = "dt_eq_time" => got = (recv = other)
    /\ op = "dt_partial_cmp_time" =>
          /\ got.some
          /\ got.v = "Equal" <=> recv = other
          /\ got.v = "Less" <=> ZLt(recv, other)
          /\ got.v = "Greater" <=> ZGt(recv, other)

C19_Witness ==
    /\ op = "dt_partial_cmp_time" /\ recv = Z(-11) /\ other = Z(1)
    /\ got = Some("Less")

\* day*86,400,000,000 + hour*3,600,000,000 + minute*60,000,000
\* + sec*1,000,000 + usec of the extracted fields e
FieldsUsecs(e) ==
    ZAdd(ZAdd(ZMul(e[2], ZMul(Z(86400), Z(1000000))),
              ZMul(e[3], ZMul(Z(3600), Z(1000000)))),
         ZAdd(ZMul(e[4], Z(60000000)), ZAdd(ZMul(e[5], Z(1000000)), e[6])))

\* C20: IntervalDT::extract of a valid x returns fields with
\* day <= 100,000,000, hour < 24, minute < 60, sec < 60, usec < 1,000,000
\* whose microseconds add up to |x|, and the sign Negative exactly when
\* x < 0; try_from_dhms of the fields succeeds and, negated when the sign is
\* Negative, is x.
C20_ExtractDt ==
    op = "dt_extract" =>
       /\ ret = NoRet
       /\ ext[1] = (IF ZLt(recv, Z(0)) THEN "Negative" ELSE "Positive")
       /\ ZGe(ext[2], Z(0)) /\ ZLe(ext[2], Z(100000000))
       /\ ZGe(ext[3], Z(0)) /\ ZLt(ext[3], Z(24))
       /\ ZGe(ext[4], Z(0)) /\ ZLt(ext[4], Z(60))
       /\ ZGe(ext[5], Z(0)) /\ ZLt(ext[5], Z(60))
       /\ ZGe(ext[6], Z(0)) /\ ZLt(ext[6], Z(1000000))
       /\ FieldsUsecs(ext) = ZAbs(recv)
       /\ try_from_dhms(ext[2], ext[3], ext[4], ext[5], ext[6]).ok
       /\ FromRecord(ext[1] = "Negative",
                     try_from_dhms(ext[2], ext[3], ext[4], ext[5], ext[6])) = Ok(recv)

C20_Witness ==
    /\ op = "dt_extract"
    /\ recv = ZNeg(ZMul(Z(1051506), USECONDS_PER_SECOND))
    /\ ext = <<"Negative", Z(12), Z(4), Z(5), Z(6), Z(0)>>

\* C21: the record that From makes of a valid interval x of either type,
\* negative ones with a year or a day that is not zero among them, is
\* converted back to Ok(x) by TryFrom.
C21_RecordRoundTrip ==
    /\ op = "ym_try_from_naive" /\ steps > 0 => ret = Ok(recv)
    /\ op = "dt_try_from_naive" /\ steps > 0 => ret = Ok(recv)

\* C22: add_interval(x, y) and add_interval(y, x) return the same result,
\* the same value or both IntervalOutOfRange; when add_interval(x, y) is
\* Ok(z), sub_interval(z, y) is Ok(x) and sub_interval(z, x) is Ok(y); and
\* sub_interval(x, x) is Ok(ZERO) for every valid x.
C22_AddSubInverse ==
    /\ op = "add_interval_ym" =>
          /\ ret = add_interval_ym(other, recv)
          /\ ret.ok \/ ret = OutOfRange
          /\ ret.ok => /\ sub_interval_ym(ret.v, other) = Ok(recv)
                       /\ sub_interval_ym(ret.v, recv) = Ok(other)
    /\ op = "add_interval_dt" =>
          /\ ret = add_interval_dt(other, recv)
          /\ ret.ok \/ ret = OutOfRange
          /\ ret.ok => /\ sub_interval_dt(ret.v, other) = Ok(recv)
                       /\ sub_interval_dt(ret.v, recv) = Ok(other)
    /\ op = "sub_interval_ym" /\ other = recv => ret = Ok(Z(0))
    /\ op = "sub_interval_dt" /\ other = recv => ret = Ok(Z(0))
    /\ cur.ty = "YM" => sub_interval_ym(cur.v, cur.v) = Ok(Z(0))
    /\ cur.ty = "DT" => sub_interval_dt(cur.v, cur.v) = Ok(Z(0))

C22_Witness ==
    /\ op = "add_interval_ym" /\ recv = YM_MAX /\ other = Z(-14)
    /\ ret = Ok(ZSub(YM_MAX, Z(14)))
====
